---- MODULE Spec2Model ----
(***************************************************************************)
(* A model of the open-deep-research-web front end: the text-mining        *)
(* helpers (DataParser, QueryAnalyzer, the follow-up question generator)   *)
(* as operators over strings, and the chat component App (handleSubmit and *)
(* the requests it starts) as a state machine.                            *)
(*                                                                         *)
(* JavaScript strings are TLA+ strings; a character is a string of length  *)
(* one.  The bullet U+2022 is written "@" (the module is ASCII).           *)
(* A JavaScript value that may be absent is a record [t, v]: t is its      *)
(* type tag and v its string content.                                      *)
(***************************************************************************)
EXTENDS Integers, Sequences, FiniteSets, TLC

VARIABLES
    \* ---- DataParser harness (SpecParser)
    reportInput,   \* the reportText argument of parseResearchData
    pstage,        \* "init" | "parsed": what has been called so far
    parsed,        \* the outcome of parseResearchData(reportInput)
    chart,         \* the last generateChartData call: its tag and result
    flow,          \* the flowchart that the results view made of the parsed report
    \* ---- QueryAnalyzer harness (SpecAnalyzer)
    queryInput,    \* the query argument of analyzeQuery
    astage,        \* "init" | "analysed"
    analysis,      \* the outcome of analyzeQuery(queryInput)
    diagramInput,  \* the arguments of generateMermaidDiagram: type, data and title
    dstage,        \* "init" | "done"
    diagram,       \* the diagram generateMermaidDiagram returned, or null
    \* ---- follow-up generator harness (SpecFollowUps)
    followInput,   \* the arguments of generateContextAwareFollowUps: report and topic
    fstage,        \* "init" | "done"
    followUps,     \* the outcome: the candidate pool built and the questions returned
    followLog,     \* what the call wrote with console.log: the scores, the relevant domains
    \* ---- formatReport harness (SpecSections)
    contentInput,  \* the content argument of formatReport
    sstage,        \* "init" | "done"
    sections,      \* the sections formatReport(contentInput) returned
    \* ---- the chat component App (Spec, SpecFair): its React state ...
    topic,                  \* the text of the input field
    currentResearchTopic,   \* the topic of the last submission
    messages,               \* the chat, oldest message first
    report,                 \* the report shown in the modal, NoReport for null
    summary,
    loading,
    error,
    reportModalOpen,
    currentResults,         \* the results handed to DynamicResearchResults
    \* ---- ... and its environment
    requests,               \* the requests started so far, with what each call did
    now,                    \* Date.now()
    welcomePending          \* the 800 ms timer of the welcome message is running

parserVars == <<reportInput, pstage, parsed, chart, flow>>

analyzerVars == <<queryInput, astage, analysis, diagramInput, dstage, diagram>>

followVars == <<followInput, fstage, followUps, followLog>>

sectionVars == <<contentInput, sstage, sections>>

chatVars ==
    <<topic, currentResearchTopic, messages, report, summary, loading, error,
      reportModalOpen, currentResults, requests, now, welcomePending>>

vars == <<parserVars, analyzerVars, followVars, sectionVars, chatVars>>

(***************************************************************************)
(* Characters and strings                                                  *)
(***************************************************************************)
\* the character of s at position i (1-based); "" outside the string
ch(s, i) == IF i >= 1 /\ i <= Len(s) THEN SubSeq(s, i, i) ELSE ""

Min(S) == CHOOSE x \in S : \A y \in S : x <= y

Max(S) == 0 - Min({0 - x : x \in S})

\* the least member of S, d when S is empty
FirstOr(S, d) == IF S = {} THEN d ELSE Min(S)

UpperStr == "ABCDEFGHIJKLMNOPQRSTUVWXYZ"

LowerStr == "abcdefghijklmnopqrstuvwxyz"

DigitStr == "0123456789"

UpperSet == {SubSeq(UpperStr, i, i) : i \in 1..26}

LowerSet == {SubSeq(LowerStr, i, i) : i \in 1..26}

DigitSet == {SubSeq(DigitStr, i, i) : i \in 1..10}

\* \w of a JavaScript regular expression
WordSet == UpperSet \cup LowerSet \cup DigitSet \cup {"_"}

\* \s of a JavaScript regular expression (the members the texts use)
SpaceSet == {" ", "\n", "\t"}

IndexIn(c, str) == CHOOSE i \in 1..Len(str) : SubSeq(str, i, i) = c

lowerChar(c) == IF c \in UpperSet THEN SubSeq(LowerStr, IndexIn(c, UpperStr), IndexIn(c, UpperStr)) ELSE c

\* String.prototype.toLowerCase
RECURSIVE toLowerCase(_)
toLowerCase(s) ==
    IF Len(s) = 0 THEN ""
    ELSE IF Len(s) = 1 THEN lowerChar(s)
    ELSE toLowerCase(SubSeq(s, 1, Len(s) \div 2)) \o toLowerCase(SubSeq(s, Len(s) \div 2 + 1, Len(s)))

\* s has sub at position i (1-based)
HasAt(s, sub, i) == i >= 1 /\ i + Len(sub) - 1 <= Len(s) /\ SubSeq(s, i, i + Len(sub) - 1) = sub

\* String.prototype.includes
includes(s, sub) == \E i \in 1..(Len(s) - Len(sub) + 1) : HasAt(s, sub, i)

\* String.prototype.indexOf, 1-based; 0 when sub does not occur
indexOf(s, sub) == FirstOr({i \in 1..(Len(s) - Len(sub) + 1) : HasAt(s, sub, i)}, 0)

\* String.prototype.substring(start, end) with 0-based start and exclusive end
substring(s, start, end) == SubSeq(s, start + 1, IF end > Len(s) THEN Len(s) ELSE end)

\* the part of s from the first to the last of the positions keep
Span(s, keep) == IF keep = {} THEN "" ELSE SubSeq(s, Min(keep), Max(keep))

\* String.prototype.trim
trim(s) == Span(s, {i \in 1..Len(s) : SubSeq(s, i, i) \notin SpaceSet})

\* the end (inclusive) of the maximal run of characters of set cs that starts at i;
\* i - 1 when the character at i is not in cs
RunEnd(s, i, cs) == FirstOr({j \in i..Len(s) : SubSeq(s, j, j) \notin cs}, Len(s) + 1) - 1

\* the end (inclusive) of the maximal run of characters outside set cs from i
RunEndNot(s, i, cs) == FirstOr({j \in i..Len(s) : SubSeq(s, j, j) \in cs}, Len(s) + 1) - 1

\* \b of a regular expression between positions i - 1 and i
WordBoundary(s, i) == (ch(s, i - 1) \in WordSet) # (ch(s, i) \in WordSet)

\* the index of the first occurrence of x in seq, 0 if absent
SeqIndex(seq, x) == FirstOr({i \in 1..Len(seq) : seq[i] = x}, 0)

\* the k-th smallest member of a set of numbers
NthOf(S, k) == CHOOSE i \in S : Cardinality({j \in S : j < i}) = k - 1

\* Array.prototype.filter, by the set of indices it keeps
KeepIndices(seq, keep) == [k \in 1..Cardinality(keep) |-> seq[NthOf(keep, k)]]

\* a Set that drops an element only when it repeats the one just before it
DedupAdjacent(seq) == KeepIndices(seq, {i \in 1..Len(seq) : i = 1 \/ seq[i] # seq[i - 1]})

\* [...new Set(seq)]: the distinct elements in order of first occurrence
Dedup(seq) == KeepIndices(seq, {i \in 1..Len(seq) : SeqIndex(seq, seq[i]) = i})

\* Array.prototype.slice(0, n)
Take(seq, n) == SubSeq(seq, 1, IF n < Len(seq) THEN n ELSE Len(seq))

\* String.prototype.split(/[.!?]+/): the pieces between maximal runs of separators;
\* SplitAt continues from the first separator i at or after from (0: there is none)
RECURSIVE SplitFrom(_, _, _)
SplitAt(s, from, seps, i) ==
    IF i = 0 THEN <<SubSeq(s, from, Len(s))>>
    ELSE <<SubSeq(s, from, i - 1)>> \o SplitFrom(s, RunEnd(s, i, seps) + 1, seps)

SplitFrom(s, from, seps) ==
    SplitAt(s, from, seps, FirstOr({i \in from..Len(s) : SubSeq(s, i, i) \in seps}, 0))

SentenceEnds == {".", "!", "?"}

splitSentences(s) == SplitFrom(s, 1, SentenceEnds)

(***************************************************************************)
(* JavaScript values                                                       *)
(***************************************************************************)
JsString(s) == [t |-> "string", v |-> s]

Undefined == [t |-> "undefined", v |-> ""]

Null == [t |-> "null", v |-> ""]

\* !x for the values above
Falsy(x) == x.t \in {"undefined", "null"} \/ (x.t = "string" /\ x.v = "")

\* the value of a string of decimal digits
RECURSIVE DigitsValue(_)
DigitsValue(s) ==
    IF Len(s) = 0 THEN 0
    ELSE 10 * DigitsValue(SubSeq(s, 1, Len(s) - 1)) + (IndexIn(SubSeq(s, Len(s), Len(s)), DigitStr) - 1)

\* parseInt on a string that starts with digits (NaN, written -1, otherwise)
parseInt(s) ==
    IF ch(s, 1) \in DigitSet THEN DigitsValue(SubSeq(s, 1, RunEnd(s, 1, DigitSet))) ELSE 0 - 1

\* the indices of keys in the order a stable ascending sort puts them
StableAscending(keys) ==
    [k \in 1..Len(keys) |->
        CHOOSE i \in 1..Len(keys) :
            k = 1 + Cardinality({j \in 1..Len(keys) :
                                    keys[j] < keys[i] \/ (keys[j] = keys[i] /\ j < i)})]

\* seq rearranged: its k-th element is seq[order[k]]
Permute(seq, order) == [k \in 1..Len(order) |-> seq[order[k]]]

(***************************************************************************)
(* DataParser: the regular expressions of parseResearchData.  Each         *)
(* operator XEnd(s, i) gives the inclusive end of the match that starts at *)
(* i, or 0 when no match starts there; its helpers continue the match from *)
(* the position reached so far.                                            *)
(***************************************************************************)
Units == <<"billion", "million", "thousand", "percent", "%", "b", "m", "k">>

\* the length of the first of the alternatives hit, 0 when none is
AltPick(alts, hit) == IF hit = {} THEN 0 ELSE Len(alts[Min(hit)])

\* the length of the first alternative of a case-insensitive group that matches at p, else 0
AltLen(s, p, alts) ==
    AltPick(alts, {k \in 1..Len(alts) :
                       /\ p + Len(alts[k]) - 1 <= Len(s)
                       /\ toLowerCase(SubSeq(s, p, p + Len(alts[k]) - 1)) = alts[k]})

\* ... (billion|million|thousand|percent|%|B|M|K)? after the white space that ends at e4
NumberUnit(s, e4) == e4 + AltLen(s, e4 + 1, Units)

\* ... \.?\d*\s* after the digits that end at e1
NumberFraction(s, e1) ==
    NumberUnit(s, RunEnd(s, RunEnd(s, (IF ch(s, e1 + 1) = "." THEN e1 + 2 ELSE e1 + 1), DigitSet) + 1,
                         SpaceSet))

\* ... \d+ at d0
NumberDigits(s, d0) ==
    IF ch(s, d0) \notin DigitSet THEN 0 ELSE NumberFraction(s, RunEnd(s, d0, DigitSet))

\* numberPattern /\$?\d+\.?\d*\s*(billion|million|thousand|percent|%|B|M|K)?/gi at i
NumberEnd(s, i) == NumberDigits(s, IF ch(s, i) = "$" THEN i + 1 ELSE i)

\* /\b(19|20)\d{2}/g at i: yearPattern without its closing \b
YearEndOpen(s, i) ==
    IF /\ WordBoundary(s, i)
       /\ (HasAt(s, "19", i) \/ HasAt(s, "20", i))
       /\ ch(s, i + 2) \in DigitSet
       /\ ch(s, i + 3) \in DigitSet
    THEN i + 3 ELSE 0

\* yearPattern /\b(19|20)\d{2}\b/g at i
YearEnd(s, i) ==
    IF /\ WordBoundary(s, i)
       /\ (HasAt(s, "19", i) \/ HasAt(s, "20", i))
       /\ ch(s, i + 2) \in DigitSet
       /\ ch(s, i + 3) \in DigitSet
       /\ WordBoundary(s, i + 4)
    THEN i + 3 ELSE 0

\* ... \.\s*([^.]+) after the digits that end at e1
NumberedStepText(s, e1) ==
    IF ch(s, e1 + 1) = "." /\ e1 + 2 <= Len(s) /\ ch(s, e1 + 2) # "."
    THEN RunEndNot(s, e1 + 2, {"."}) ELSE 0

\* stepPatterns[0] /\d+\.\s*([^.]+)/g at i
NumberedStepEnd(s, i) ==
    IF ch(s, i) \notin DigitSet THEN 0 ELSE NumberedStepText(s, RunEnd(s, i, DigitSet))

\* stepPatterns[1] and [2], /@\s*([^@]+)/g and /\*\s*([^*]+)/g, at i (mark is "@" or "*")
MarkedStepEnd(s, i, mark) ==
    IF ch(s, i) = mark /\ i + 1 <= Len(s) /\ ch(s, i + 1) # mark
    THEN RunEndNot(s, i + 1, {mark}) ELSE 0

\* ... ([^-\n]+) after the white space from i + 1 to w: \s* is greedy and gives
\* characters back until the class [^-\n] finds one to match
DashStepText(s, i, w) ==
    IF w + 1 <= Len(s) /\ ch(s, w + 1) # "-"
    THEN RunEndNot(s, w + 1, {"-", "\n"})
    ELSE 0 - FirstOr({0 - k : k \in {j \in (i + 1)..w : SubSeq(s, j, j) # "\n"}}, 0)

\* stepPatterns[3] /-\s*([^-\n]+)/g at i
DashStepEnd(s, i) ==
    IF ch(s, i) # "-" THEN 0 ELSE DashStepText(s, i, RunEnd(s, i + 1, SpaceSet))

StatWords == <<"of", "in", "are", "were", "have", "show", "indicate", "report">>

\* ... (of|in|are|were|have|show|indicate|report), n characters long, after e5
StatWord(e5, n) == IF n = 0 THEN 0 ELSE e5 + n

\* ... \s*(of|in|...) after the optional % that ends at e4
StatConnective(s, e5) == StatWord(e5, AltLen(s, e5 + 1, StatWords))

\* ... %?\s* after the white space that ends at e3
StatPercent(s, e3) ==
    StatConnective(s, RunEnd(s, (IF ch(s, e3 + 1) = "%" THEN e3 + 2 ELSE e3 + 1), SpaceSet))

\* ... (?:\.\d+)?\s* after the digits that end at e1
StatFraction(s, e1) ==
    StatPercent(s, RunEnd(s, (IF ch(s, e1 + 1) = "." /\ ch(s, e1 + 2) \in DigitSet
                              THEN RunEnd(s, e1 + 2, DigitSet) + 1 ELSE e1 + 1), SpaceSet))

\* statPattern /(\d+(?:\.\d+)?)\s*%?\s*(of|in|are|were|have|show|indicate|report)/gi at i
StatEnd(s, i) ==
    IF ch(s, i) \notin DigitSet THEN 0 ELSE StatFraction(s, RunEnd(s, i, DigitSet))

\* the groups (?:\s+[A-Z][a-z]+)* after a word that ends at e, then the closing \b:
\* the end of the match, 0 when the closing \b fails for every number of groups.
\* When the groups after e cannot be closed (r = 0) the match closes at e, where
\* white space follows.
RECURSIVE EntityTail(_, _)
EntityBack(e, r) == IF r > 0 THEN r ELSE e

\* w is the end of the white space after e
EntityGroup(s, e, w) ==
    IF w >= e + 1 /\ ch(s, w + 1) \in UpperSet /\ ch(s, w + 2) \in LowerSet
    THEN EntityBack(e, EntityTail(s, RunEnd(s, w + 2, LowerSet)))
    ELSE IF WordBoundary(s, e + 1) THEN e ELSE 0

EntityTail(s, e) == EntityGroup(s, e, RunEnd(s, e + 1, SpaceSet))

\* entityPattern /\b[A-Z][a-z]+(?:\s+[A-Z][a-z]+)*\b/g at i
EntityEnd(s, i) ==
    IF WordBoundary(s, i) /\ ch(s, i) \in UpperSet /\ ch(s, i + 1) \in LowerSet
    THEN EntityTail(s, RunEnd(s, i + 1, LowerSet)) ELSE 0

\* /\b\w+\b/g of analyzeQuery at i
WordEnd(s, i) ==
    IF WordBoundary(s, i) /\ ch(s, i) \in WordSet THEN RunEnd(s, i, WordSet) ELSE 0

\* ... [.!?]+ after the characters that end at e1
SentenceClose(s, e1) == IF ch(s, e1 + 1) \in SentenceEnds THEN RunEnd(s, e1 + 1, SentenceEnds) ELSE 0

\* /[^.!?]+[.!?]+/g of handleSubmit at i
SentenceEnd(s, i) ==
    IF ch(s, i) = "" \/ ch(s, i) \in SentenceEnds THEN 0
    ELSE SentenceClose(s, RunEndNot(s, i, SentenceEnds))

PatternNames == {"number", "year", "numbered", "bullet", "star", "dash", "stat", "entity"}

\* the inclusive end of the match of pattern pat that starts at i, 0 when none does
PatternEnd(pat, s, i) ==
    CASE pat = "number"   -> NumberEnd(s, i)
      [] pat = "year"     -> YearEnd(s, i)
      [] pat = "numbered" -> NumberedStepEnd(s, i)
      [] pat = "bullet"   -> MarkedStepEnd(s, i, "@")
      [] pat = "star"     -> MarkedStepEnd(s, i, "*")
      [] pat = "dash"     -> DashStepEnd(s, i)
      [] pat = "stat"     -> StatEnd(s, i)
      [] pat = "entity"   -> EntityEnd(s, i)
      [] pat = "word"     -> WordEnd(s, i)
      [] pat = "sentence" -> SentenceEnd(s, i)

\* the matches, left to right, given the end of the match at each position (0: none):
\* the scan takes the first start at or after from and resumes after that match
RECURSIVE MatchWalk(_, _, _)
MatchTake(s, ends, i) ==
    IF i = 0 THEN <<>> ELSE <<SubSeq(s, i, ends[i])>> \o MatchWalk(s, ends, ends[i] + 1)

MatchWalk(s, ends, from) ==
    MatchTake(s, ends, FirstOr({i \in from..Len(s) : ends[i] > 0}, 0))

\* String.prototype.match with a global pattern (<<>> stands for null, which the
\* callers replace by [])
MatchAll(pat, s) == MatchWalk(s, [i \in 1..Len(s) |-> PatternEnd(pat, s, i)], 1)

\* the matches of every pattern of parseResearchData in text
AllMatches(text) == [pat \in PatternNames |-> MatchAll(pat, text)]

(***************************************************************************)
(* DataParser.parseResearchData and its helpers                            *)
(***************************************************************************)
\* the window of extractContextAroundNumber: index is the 0-based place of number
NumberWindow(text, number, index) ==
    IF index = 0 - 1 THEN ""
    ELSE substring(text, Max({0, index - 50}), index) \o "**" \o number \o "**"
             \o substring(text, index + Len(number), Min({Len(text), index + Len(number) + 50}))

\* extractContextAroundNumber: 50 characters either side, the number marked with **
extractContextAroundNumber(text, number) == NumberWindow(text, number, indexOf(text, number) - 1)

\* the first of sentences whose index is in hit, "" when there is none
FirstOf(sentences, hit) == IF hit = {} THEN "" ELSE sentences[Min(hit)]

\* Array.prototype.find over the sentences: the first that includes word, "" when none
FirstSentenceWith(sentences, word) ==
    FirstOf(sentences, {k \in 1..Len(sentences) : includes(sentences[k], word)})

\* sentence ? sentence.trim().substring(0, n) : ''
Clip(sentence, n) == IF sentence = "" THEN "" ELSE substring(trim(sentence), 0, n)

extractContextAroundYear(text, year) == Clip(FirstSentenceWith(splitSentences(text), year), 100)

StatWindow(text, stat, index) ==
    IF index = 0 - 1 THEN ""
    ELSE substring(text, Max({0, index - 30}), Min({Len(text), index + Len(stat) + 30}))

extractContextAroundStat(text, stat) == StatWindow(text, stat, indexOf(text, stat) - 1)

extractContextAroundEntity(text, entity) ==
    Clip(FirstSentenceWith(splitSentences(text), entity), 120)

insightKeywords ==
    <<"important", "significant", "key", "major", "notable", "remarkable",
      "crucial", "essential", "critical", "primary", "main", "leading">>

\* the number of the keywords that the lower-case text low includes
KeywordHits(low, keywords) == Cardinality({k \in 1..Len(keywords) : includes(low, keywords[k])})

calculateImportanceScore(text, keywords) ==
    KeywordHits(toLowerCase(text), keywords) + (IF Len(text) > 50 THEN 1 ELSE 0)

\* the number of matches of new RegExp(word, 'gi') in text from position from on, for a
\* word that is itself plain text: the case-insensitive occurrences, left to right,
\* none overlapping an earlier one (i is the next occurrence, 0 when there is none)
RECURSIVE CountFrom(_, _, _)
CountNext(lowText, lowWord, i) ==
    IF i = 0 THEN 0 ELSE 1 + CountFrom(lowText, lowWord, i + Len(lowWord))

CountFrom(lowText, lowWord, from) ==
    CountNext(lowText, lowWord,
              FirstOr({i \in from..(Len(lowText) - Len(lowWord) + 1) : HasAt(lowText, lowWord, i)}, 0))

\* new RegExp(word) takes word as a pattern; a word of letters, digits and white space
\* stands for itself.  Any other word is taken as a pattern that may not compile.
PlainPattern(word) ==
    Len(word) > 0 /\ \A i \in 1..Len(word) : SubSeq(word, i, i) \in (WordSet \cup SpaceSet)

countOccurrences(text, word) == CountFrom(toLowerCase(text), toLowerCase(word), 1)

EmptyParsed ==
    [key_metrics |-> <<>>, timeline_data |-> <<>>, comparison_data |-> <<>>,
     trend_data |-> <<>>, insights |-> <<>>, facts |-> <<>>, process_steps |-> <<>>,
     statistics |-> <<>>, entities |-> <<>>, relationships |-> <<>>]

\* line 17 with a test for null alone
ReturnsEarlyOnNull(reportText) == reportText.t = "null"

\* line 17, if (!reportText) return parsed
ReturnsEarly(reportText) == Falsy(reportText)

\* lines 23-29, numbers being the matches of numberPattern
KeyMetrics(text, numbers) ==
    [i \in 1..Min({8, Len(numbers)}) |->
        [value |-> numbers[i], label |-> "Metric " \o ToString(i),
         description |-> extractContextAroundNumber(text, numbers[i])]]

\* the cap of years.slice(0, 10)
YearSlice == 10

\* lines 37-41
TimelineEntry(year, context) ==
    [year |-> parseInt(year),
     event |-> IF context = "" THEN "Event in " \o year ELSE context,
     description |-> context]

\* lines 33-42: the timeline before the final sort, found being the matches of yearPattern
TimelineOf(text, years) ==
    [i \in 1..Len(years) |-> TimelineEntry(years[i], extractContextAroundYear(text, years[i]))]

\* lines 33-35 without the Set: every match counts, repeated or not
TimelineWithRepeats(text, found) == TimelineOf(text, Take(found, YearSlice))

\* lines 33-35: [...new Set(yearMatches)].slice(0, 10), then the map of lines 36-42
TimelineFound(text, found) == TimelineOf(text, Take(Dedup(found), YearSlice))

\* lines 52-54: the test a sentence passes to become an insight
IsInsight(sentence) ==
    /\ \E w \in 1..Len(insightKeywords) : includes(toLowerCase(sentence), insightKeywords[w])
    /\ Len(trim(sentence)) > 20
    /\ Len(trim(sentence)) < 200

\* lines 55-58
InsightEntry(trimmed) ==
    [text |-> trimmed, importance |-> calculateImportanceScore(trimmed, insightKeywords)]

InsightsOf(kept) == [i \in 1..Len(kept) |-> InsightEntry(trim(kept[i]))]

\* lines 45-61: the insights before the final sort
InsightsAmong(sentences) ==
    InsightsOf(KeepIndices(sentences, {k \in 1..Len(sentences) : IsInsight(sentences[k])}))

InsightsFound(text) == InsightsAmong(splitSentences(text))

stepPatterns == <<"numbered", "bullet", "star", "dash">>

\* match.replace(/^\d+\.\s*|^[@*-]\s*/, '').trim(), d being the end of the leading digits
StripAfter(match, d) ==
    IF d >= 1 /\ ch(match, d + 1) = "."
    THEN trim(SubSeq(match, d + 2, Len(match)))
    ELSE IF ch(match, 1) \in {"@", "*", "-"}
    THEN trim(SubSeq(match, 2, Len(match)))
    ELSE trim(match)

StripMarker(match) == StripAfter(match, RunEnd(match, 1, DigitSet))

\* line 75: the steps that are kept
AcceptedSteps(steps) ==
    KeepIndices(steps, {i \in 1..Len(steps) : Len(steps[i]) > 10 /\ Len(steps[i]) < 150})

\* lines 73-81 without slice(0, 8): the accepted steps of all the matches
StepsOfAll(matches) == AcceptedSteps([i \in 1..Len(matches) |-> StripMarker(matches[i])])

\* lines 73-81 for one pattern: the accepted steps of its first 8 matches
StepsOf(matches) == AcceptedSteps([i \in 1..Min({8, Len(matches)}) |-> StripMarker(matches[i])])

\* lines 76-79: order is the length of the list at the time of the push, plus one
NumberSteps(all) == [i \in 1..Len(all) |-> [step |-> all[i], order |-> i]]

\* lines 64-82, m giving the matches of each pattern
ProcessSteps(m) ==
    NumberSteps(StepsOf(m[stepPatterns[1]]) \o StepsOf(m[stepPatterns[2]])
                    \o StepsOf(m[stepPatterns[3]]) \o StepsOf(m[stepPatterns[4]]))

\* lines 88-93, stats being the matches of statPattern
Statistics(text, stats) ==
    [i \in 1..Min({6, Len(stats)}) |->
        [value |-> stats[i], context |-> extractContextAroundStat(text, stats[i])]]

\* the cap of entities.slice(0, 15)
EntitySlice == 15

\* line 97 and the slice of line 99, found being the matches of entityPattern
EntityNames(found) == Take(Dedup(found), EntitySlice)

EntitiesOf(text, kept) ==
    [i \in 1..Len(kept) |->
        [name |-> kept[i], frequency |-> countOccurrences(text, kept[i]),
         context |-> extractContextAroundEntity(text, kept[i])]]

\* lines 99-107: the entities before the final sort
EntitiesFound(text, names) ==
    EntitiesOf(text, KeepIndices(names, {i \in 1..Len(names) : Len(names[i]) > 2}))

\* lines 110-112 with a sort that puts equal importances in reverse order
SortInsightsUnstable(found) ==
    Take([k \in 1..Len(found) |->
             Permute(found, StableAscending([i \in 1..Len(found) |-> found[i].importance]))
                 [Len(found) + 1 - k]], 8)

\* lines 110-112: sort((a, b) => b.importance - a.importance).slice(0, 8)
SortInsights(found) ==
    Take(Permute(found, StableAscending([i \in 1..Len(found) |-> 0 - found[i].importance])), 8)

\* lines 114-116 without the sort
SliceEntitiesOnly(found) == Take(found, 10)

\* lines 114-116: sort((a, b) => b.frequency - a.frequency).slice(0, 10)
SortEntities(found) ==
    Take(Permute(found, StableAscending([i \in 1..Len(found) |-> 0 - found[i].frequency])), 10)

\* lines 118-120 without the sort
SliceTimelineOnly(found) == Take(found, 8)

\* lines 118-120: sort((a, b) => a.year - b.year).slice(0, 8)
SortTimeline(found) ==
    Take(Permute(found, StableAscending([i \in 1..Len(found) |-> found[i].year])), 8)

\* countOccurrences throws when one of the names it is given does not compile
SomePatternFails(names) == \E i \in 1..Len(names) : Len(names[i]) > 2 /\ ~PlainPattern(names[i])

\* lines 19-122, m giving the matches of each pattern in text
ParseText(text, m) ==
    IF SomePatternFails(EntityNames(m["entity"]))
    THEN [raised |-> TRUE, value |-> EmptyParsed]
    ELSE [raised |-> FALSE,
          value |-> [key_metrics |-> KeyMetrics(text, m["number"]),
                     timeline_data |-> SortTimeline(TimelineFound(text, m["year"])),
                     comparison_data |-> <<>>,
                     trend_data |-> <<>>,
                     insights |-> SortInsights(InsightsFound(text)),
                     facts |-> <<>>,
                     process_steps |-> ProcessSteps(m),
                     statistics |-> Statistics(text, m["stat"]),
                     entities |-> SortEntities(EntitiesFound(text, EntityNames(m["entity"]))),
                     relationships |-> <<>>]]

\* parseResearchData(reportText, domain): raised tells whether the call threw, value is
\* the ParsedReport it returned.  A truthy argument that is no string has no match
\* method.
parseResearchData(reportText) ==
    IF ReturnsEarly(reportText) THEN [raised |-> FALSE, value |-> EmptyParsed]
    ELSE IF reportText.t # "string" THEN [raised |-> TRUE, value |-> EmptyParsed]
    ELSE ParseText(reportText.v, AllMatches(reportText.v))

(***************************************************************************)
(* DataParser.generateChartData and its builders                           *)
(***************************************************************************)
\* the value null
NullResult == [isNull |-> TRUE, labels |-> <<>>, data |-> <<>>]

Series(labels, data) == [isNull |-> FALSE, labels |-> labels, data |-> data]

\* the digits fr after the point without their trailing zeros (nz: where fr is not 0)
FractionDigits(fr, nz) == IF nz = {} THEN "" ELSE SubSeq(fr, 1, Max(nz))

SignificantFraction(fr) == FractionDigits(fr, {k \in 1..Len(fr) : SubSeq(fr, k, k) # "0"})

\* the number whose digits start at i and whose whole part ends at e1
NumberAt(text, i, e1) ==
    [whole |-> DigitsValue(SubSeq(text, i, e1)),
     frac |-> IF ch(text, e1 + 1) = "."
              THEN SignificantFraction(SubSeq(text, e1 + 2, RunEnd(text, e1 + 2, DigitSet)))
              ELSE ""]

FirstNumber(text, i) ==
    IF i = 0 THEN [whole |-> 0, frac |-> ""] ELSE NumberAt(text, i, RunEnd(text, i, DigitSet))

\* extractNumber: parseFloat of the first /\d+\.?\d*/ of text, as the whole part and
\* the digits after the point; 0 when text holds no digit
extractNumber(text) ==
    FirstNumber(text, FirstOr({i \in 1..Len(text) : SubSeq(text, i, i) \in DigitSet}, 0))

BarSeries(metrics) ==
    IF Len(metrics) = 0 THEN NullResult
    ELSE Series([i \in 1..Len(metrics) |-> metrics[i].label],
                [i \in 1..Len(metrics) |-> extractNumber(metrics[i].value)])

generateBarChartData(parsedData) == BarSeries(Take(parsedData.key_metrics, 6))

LineSeries(timeline) ==
    IF Len(timeline) = 0 THEN NullResult
    ELSE Series([i \in 1..Len(timeline) |-> ToString(timeline[i].year)],
                [i \in 1..Len(timeline) |-> i])

generateLineChartData(parsedData) == LineSeries(Take(parsedData.timeline_data, 8))

DoughnutSeries(entities) ==
    IF Len(entities) = 0 THEN NullResult
    ELSE Series([i \in 1..Len(entities) |-> entities[i].name],
                [i \in 1..Len(entities) |-> entities[i].frequency])

\* generateDoughnutChartData with slice(0, 6)
DoughnutOfSix(parsedData) == DoughnutSeries(Take(parsedData.entities, 6))

generateDoughnutChartData(parsedData) == DoughnutSeries(Take(parsedData.entities, 5))

RadarSeries(insights) ==
    IF Len(insights) = 0 THEN NullResult
    ELSE Series([i \in 1..Len(insights) |-> "Insight " \o ToString(i)],
                [i \in 1..Len(insights) |->
                    IF insights[i].importance = 0 THEN 1 ELSE insights[i].importance])

generateRadarChartData(parsedData) == RadarSeries(Take(parsedData.insights, 6))

generateTimelineChartData(parsedData) == generateLineChartData(parsedData)

BubbleSeries(entities) ==
    IF Len(entities) = 0 THEN NullResult
    ELSE Series(<<>>,
                [i \in 1..Len(entities) |->
                    [x |-> i, y |-> entities[i].frequency,
                     r |-> Min({Len(entities[i].name) * 2, 20})]])

generateBubbleChartData(parsedData) == BubbleSeries(Take(parsedData.entities, 8))

\* lines 170-181: the tags that have a case of their own in the switch
ChartCases == {"bar", "line", "doughnut", "radar", "timeline", "bubble"}

generateChartData(parsedData, chartType) ==
    CASE chartType = "bar"      -> generateBarChartData(parsedData)
      [] chartType = "line"     -> generateLineChartData(parsedData)
      [] chartType = "doughnut" -> generateDoughnutChartData(parsedData)
      [] chartType = "radar"    -> generateRadarChartData(parsedData)
      [] chartType = "timeline" -> generateTimelineChartData(parsedData)
      [] chartType = "bubble"   -> generateBubbleChartData(parsedData)
      [] OTHER                  -> generateBarChartData(parsedData)

(***************************************************************************)
(* The report texts the parser is applied to: every window of at most      *)
(* MaxWindow consecutive tokens of each token list, and some whole texts.  *)
(***************************************************************************)
\* the tokens i to j of a list, one after the other
RECURSIVE Concat(_, _, _)
Concat(tokens, i, j) == IF i > j THEN "" ELSE tokens[i] \o Concat(tokens, i + 1, j)

MaxWindow == 17

\* years, in and out of 1900-2099, repeated and out of order
YearTokens ==
    <<"1969 ", "1972. ", "2001 ", "1905, ", "1969 ", "2099 ", "1900 ", "1850 ", "2100 ",
      "1987 ", "2020 ", "19999 ", "1945 ", "1999 ", "2010-", "1931 ", "x1990 ", "1961 ">>

\* capitalised words and the same words in other cases
NameTokens ==
    <<"Rome, ", "rome ", "Paris. ", "New York; ", "Al, ", "Bob1 ", "Marie Curie ",
      "was in ", "Oslo, ", "paris ", "Lima! ", "Kyoto - ", "the Nile, ", "Cairo: ",
      "ROME ", "Bonn, ", "Riga, ", "Turin? ", "Quito, ", "Perth, ", "Delhi, ", "Milan, ",
      "Rome Paris. ", "milan ">>

\* sentences with and without importance keywords
SentenceTokens ==
    <<"This is a key point here. ",
      "A major and crucial finding was made in the primary study! ",
      "Nothing to see in this one. ", "Short key. ", "Is the main result significant? ",
      "The Keynote was notable then. ", "Essential steps remain critical. ",
      "A leading lab made it important. ", "It is a remarkable and key idea. ",
      "Our primary aim is to stay here. ", "The main road is very long now. ">>

\* list items under the four markers
ItemTokens ==
    <<"1. First gather the data\n", "- tiny\n", "* Review all of the notes\n",
      "@ Ask the main question\n", "- Write the final report - then rest\n",
      "2. Check. Then go on with it\n", "- Compare the two results\n", "- \n",
      "- Publish the findings\n", "- Archive the raw data\n", "- Plan the next study\n",
      "- Thank the whole team\n", "- Close the project out\n", "- Start the new project\n",
      "--\n", "3.Summarise everything now\n", "- Write up the lessons\n">>

\* numbers with units and connecting words
StatTokens ==
    <<"$5 million ", "50% of ", "3.5 in ", "12 are ", "7 K ", "1.2.5 were ",
      "100 percent ", "8 Indicate ", "9b ", "42 show ", "6 %  have ", "$x 10", "2. ">>

\* whole texts, the empty text among them; the last two hold sentences of 20, 21, 50 and
\* 51 characters and of 200 and 199; then list items of 10 and 11 characters and of 150
\* and 149, and seven lines that each of the four step patterns matches
WholeTexts ==
    <<"", " ", "The discovery occurred in 1969 and again in 1972.",
      "In 2001 Marie Curie was a key figure. By 1905, 50% of major labs in Paris were closed!",
      "no capitals and no digits at all", "#Title\n- a-b\n* x*y",
      "McDonald AbcDef Abc1 Ab",
      "A key is needed here. A key is needed there! The main road goes on and"
          \o " so on and so on and so o? The main path goes on and so on and so on a"
          \o "nd so on.",
      "A critical list goes on and so on and so on and so on and so on and so"
          \o " on and so on and so on and so on and so on and so on and so on and so"
          \o " on and so on and so on and so on and so on and so on and so"
          \o ". "
          \o "A leading list goes on and so on and so on and so on and so on and so "
          \o "on and so on and so on and so on and so on and so on and so on and so "
          \o "on and so on and so on and so on and so on and so on and so"
          \o ".",
      "- abcdefghij\n- abcdefghijk\n",
      "- " \o "go on and so on and so on and so on and so on and so on and so on and "
          \o "so on and so on and so on and so on and so on and so on and so on and "
          \o "so on andx"
          \o "\n- "
          \o "go by and so on and so on and so on and so on and so on and so on and "
          \o "so on and so on and so on and so on and so on and so on and so on and "
          \o "so on and"
          \o "\n",
      Concat([i \in 1..7 |->
                 ToString(i) \o ". Gather all data here. @ Review every note "
                     \o "* Compare both results - Publish the findings\n"], 1, 7)>>

TokenLists == <<YearTokens, NameTokens, SentenceTokens, ItemTokens, StatTokens>>

\* the windows of at most MaxWindow consecutive tokens of one list
Windows(tokens) ==
    {Concat(tokens, w[1], w[2]) :
        w \in {v \in (1..Len(tokens)) \X (1..Len(tokens)) :
                  v[1] <= v[2] /\ v[2] - v[1] + 1 <= MaxWindow}}

ReportTexts ==
    UNION {Windows(TokenLists[f]) : f \in 1..Len(TokenLists)}
        \cup {WholeTexts[i] : i \in 1..Len(WholeTexts)}

\* the arguments parseResearchData is called with: a text, or none
ReportInputs == {JsString(t) : t \in ReportTexts} \cup {Undefined, Null}

\* the chart-type tags: those generateChartData names and those analyzeQuery emits
ChartTags == {"bar", "line", "doughnut", "radar", "timeline", "bubble",
              "scatter", "area", "achievements"}

NoOutcome == [raised |-> FALSE, value |-> EmptyParsed]

NoChart == [tag |-> "", result |-> NullResult]

NoFlow == [rendered |-> FALSE, result |-> [isNull |-> TRUE, text |-> ""]]

\* the query prop of DynamicResearchResults
ViewQuery == "How to publish"

\* the parser harness at rest, while another specification runs
ParserIdle ==
    /\ reportInput = Undefined
    /\ pstage = "idle"
    /\ parsed = NoOutcome
    /\ chart = NoChart
    /\ flow = NoFlow

(***************************************************************************)
(* QueryAnalyzer.analyzeQuery                                              *)
(***************************************************************************)
\* lines 16-28: the analysis object before any rule has been applied
DefaultAnalysis ==
    [research_type |-> "general", domain |-> "general", complexity |-> "comprehensive",
     focus_areas |-> <<>>, suggested_visualizations |-> <<>>,
     estimated_time |-> "2-3 minutes", keywords |-> <<>>, entities |-> <<>>,
     intent |-> "research", chart_types |-> <<>>, mermaid_diagrams |-> <<>>]

stopWords ==
    {"the", "is", "are", "was", "were", "a", "an", "and", "or", "but", "in", "on", "at",
     "to", "for", "of", "with", "by"}

\* line 33
Keywords(words) ==
    Take(KeepIndices(words, {i \in 1..Len(words) :
                                Len(words[i]) > 3 /\ words[i] \notin stopWords}), 10)

\* lines 40-49, in the order of Object.entries
intentPatterns ==
    <<[name |-> "definition", patterns |-> <<"what is", "define", "meaning of", "explain">>],
      [name |-> "comparison", patterns |-> <<"compare", "vs", "versus", "difference", "better">>],
      [name |-> "tutorial", patterns |-> <<"how to", "steps", "guide", "tutorial", "learn">>],
      [name |-> "analysis", patterns |-> <<"analyze", "analysis", "impact", "effect", "why">>],
      [name |-> "news", patterns |-> <<"latest", "recent", "news", "current", "today">>],
      [name |-> "biography", patterns |-> <<"who is", "biography", "life", "born", "career">>],
      [name |-> "statistics",
       patterns |-> <<"statistics", "data", "numbers", "percentage", "rate">>],
      [name |-> "trends", patterns |-> <<"trend", "future", "forecast", "prediction", "growth">>]>>

\* lines 59-69, in the order of Object.entries
domainPatterns ==
    <<[name |-> "business",
       patterns |-> <<"business", "company", "market", "revenue", "profit", "economy",
                      "finance", "stock", "investment", "startup", "entrepreneur">>],
      [name |-> "technology",
       patterns |-> <<"technology", "ai", "software", "hardware", "tech", "programming",
                      "algorithm", "data", "digital", "computer", "internet">>],
      [name |-> "science",
       patterns |-> <<"science", "research", "study", "experiment", "theory", "discovery",
                      "scientific", "biology", "chemistry", "physics">>],
      [name |-> "medicine",
       patterns |-> <<"medical", "health", "disease", "treatment", "doctor", "hospital",
                      "drug", "therapy", "clinical", "medicine">>],
      [name |-> "entertainment",
       patterns |-> <<"actor", "actress", "movie", "film", "celebrity", "entertainment",
                      "hollywood", "music", "singer", "artist">>],
      [name |-> "sports",
       patterns |-> <<"sport", "athlete", "player", "team", "game", "championship",
                      "olympic", "tournament", "match", "football", "basketball">>],
      [name |-> "politics",
       patterns |-> <<"politics", "government", "election", "political", "policy",
                      "democracy", "law", "legislation", "president", "minister">>],
      [name |-> "history",
       patterns |-> <<"history", "historical", "ancient", "century", "era", "civilization",
                      "empire", "revolution", "dynasty", "medieval">>],
      [name |-> "environment",
       patterns |-> <<"environment", "climate", "green", "sustainable", "pollution",
                      "ecosystem", "conservation", "renewable", "carbon">>]>>

\* lines 79-109: the branches of the if / else-if chain, in order
researchRules ==
    <<[name |-> "biography", patterns |-> <<"who is", "who was", "biography", "life">>,
       focus_areas |-> <<"Personal Background", "Career", "Achievements", "Impact">>,
       chart_types |-> <<"timeline", "achievements">>,
       mermaid_diagrams |-> <<"timeline">>],
      [name |-> "explanation", patterns |-> <<"what is", "explain", "definition", "meaning">>,
       focus_areas |-> <<"Definition", "Key Concepts", "Applications", "Examples">>,
       chart_types |-> <<"doughnut", "bar">>,
       mermaid_diagrams |-> <<"mindmap", "flowchart">>],
      [name |-> "process", patterns |-> <<"how", "process", "steps", "method">>,
       focus_areas |-> <<"Steps", "Methods", "Requirements", "Best Practices">>,
       chart_types |-> <<"line", "radar">>,
       mermaid_diagrams |-> <<"flowchart", "sequence">>],
      [name |-> "analysis", patterns |-> <<"why", "reason", "cause", "impact">>,
       focus_areas |-> <<"Causes", "Effects", "Analysis", "Implications">>,
       chart_types |-> <<"bubble", "scatter">>,
       mermaid_diagrams |-> <<"flowchart", "gitgraph">>],
      [name |-> "comparison", patterns |-> <<"compare", "vs", "versus", "difference">>,
       focus_areas |-> <<"Similarities", "Differences", "Pros & Cons", "Recommendations">>,
       chart_types |-> <<"radar", "bar">>,
       mermaid_diagrams |-> <<"graph", "sankey">>],
      [name |-> "trend_analysis", patterns |-> <<"trend", "future", "prediction", "forecast">>,
       focus_areas |-> <<"Current Trends", "Future Predictions", "Market Analysis",
                         "Opportunities">>,
       chart_types |-> <<"line", "area">>,
       mermaid_diagrams |-> <<"timeline", "gitgraph">>]>>

\* lines 112-118: the branches of the if / else-if, in order
complexityRules ==
    <<[name |-> "fast", patterns |-> <<"quick", "brief", "summary", "overview">>,
       estimated_time |-> "30-60 seconds"],
      [name |-> "comprehensive",
       patterns |-> <<"detailed", "comprehensive", "thorough", "in-depth", "complete">>,
       estimated_time |-> "2-4 minutes"]>>

\* patterns.some(pattern => queryLower === pattern): the whole query, not a part of it
SomeEqual(queryLower, patterns) == \E p \in 1..Len(patterns) : queryLower = patterns[p]

\* patterns.some(pattern => queryLower.includes(pattern))
SomeIncluded(queryLower, patterns) ==
    \E p \in 1..Len(patterns) : includes(queryLower, patterns[p])

\* the loop of lines 51-56 without its break: the last entry that matches is kept
LastRule(table, queryLower) ==
    Max({k \in 1..Len(table) : SomeIncluded(queryLower, table[k].patterns)} \cup {0})

\* the index of the first entry of table one of whose patterns queryLower includes, 0
\* when there is none
FirstRule(table, queryLower) ==
    FirstOr({k \in 1..Len(table) : SomeIncluded(queryLower, table[k].patterns)}, 0)

\* the field of the entry k of table, the default when no entry matched (k = 0)
FieldOr(table, k, field, default) == IF k = 0 THEN default ELSE table[k][field]

\* lines 30-120, keywordList and entityList being the matches of lines 32 and 36, and
\* i, d, r, c the entries of the four tables that queryLower hits first (0: none)
AnalysisOf(keywordList, entityList, i, d, r, c) ==
    [research_type |-> FieldOr(researchRules, r, "name", DefaultAnalysis.research_type),
     domain |-> FieldOr(domainPatterns, d, "name", DefaultAnalysis.domain),
     complexity |-> FieldOr(complexityRules, c, "name", DefaultAnalysis.complexity),
     focus_areas |-> FieldOr(researchRules, r, "focus_areas", DefaultAnalysis.focus_areas),
     suggested_visualizations |-> DefaultAnalysis.suggested_visualizations,
     estimated_time |->
         FieldOr(complexityRules, c, "estimated_time", DefaultAnalysis.estimated_time),
     keywords |-> Keywords(keywordList),
     entities |-> Take(entityList, 5),
     intent |-> FieldOr(intentPatterns, i, "name", DefaultAnalysis.intent),
     chart_types |-> FieldOr(researchRules, r, "chart_types", DefaultAnalysis.chart_types),
     mermaid_diagrams |->
         FieldOr(researchRules, r, "mermaid_diagrams", DefaultAnalysis.mermaid_diagrams)]

\* lines 79-109 with the chart types set by ifs of their own, not by the one chain
AnalyzeTextUnchained(query, queryLower) ==
    AnalysisOf(MatchAll("word", queryLower), MatchAll("entity", query),
               FirstRule(intentPatterns, queryLower), FirstRule(domainPatterns, queryLower),
               LastRule(researchRules, queryLower), FirstRule(complexityRules, queryLower))

\* lines 30-120 for the string query, queryLower being its lowercased text
AnalyzeText(query, queryLower) ==
    AnalysisOf(MatchAll("word", queryLower), MatchAll("entity", query),
               FirstRule(intentPatterns, queryLower), FirstRule(domainPatterns, queryLower),
               FirstRule(researchRules, queryLower), FirstRule(complexityRules, queryLower))

\* analyzeQuery(query): raised tells whether the call threw, value is the analysis it
\* returned.  Line 14 reads query.toLowerCase, which null and undefined do not have.
analyzeQuery(query) ==
    IF query.t # "string" THEN [raised |-> TRUE, value |-> DefaultAnalysis]
    ELSE [raised |-> FALSE, value |-> AnalyzeText(query.v, toLowerCase(query.v))]

(***************************************************************************)
(* QueryAnalyzer.generateMermaidDiagram and its builders.  A list of the   *)
(* data bag is present or absent (undefined); an item of a list is a       *)
(* string or an object: kind tells which, text is the string (the step,    *)
(* event or name of an object) and number the order or year of an object.  *)
(***************************************************************************)
Absent == [present |-> FALSE, items |-> <<>>]

Listed(items) == [present |-> TRUE, items |-> items]

StringItem(text) == [kind |-> "string", text |-> text, number |-> 0]

ObjectItem(text, number) == [kind |-> "object", text |-> text, number |-> number]

\* a || b || [] as if an empty array were falsy
FirstNonEmpty(a, b) ==
    IF a.present /\ a.items # <<>> THEN a.items ELSE IF b.present THEN b.items ELSE <<>>

\* a || b || [] on lists: an array is truthy, the empty one too
FirstPresent(a, b) == IF a.present THEN a.items ELSE IF b.present THEN b.items ELSE <<>>

\* ${item} in a template literal
templateText(item) == IF item.kind = "string" THEN item.text ELSE "[object Object]"

\* String.fromCharCode(code) for the codes 66 to 97; the grave accent (code 96) is
\* written "'"
CodeChars == "BCDEFGHIJKLMNOPQRSTUVWXYZ[\\]^_'a"

fromCharCode(code) == SubSeq(CodeChars, code - 65, code - 65)

\* text.replace(/:/g, ';')
replaceColons(text) ==
    Concat([i \in 1..Len(text) |-> IF ch(text, i) = ":" THEN ";" ELSE ch(text, i)], 1, Len(text))

\* text.replace(/\s+/g, '_'): one underscore for every run of white space
replaceSpaces(text) ==
    Concat([i \in 1..Len(text) |->
               IF ch(text, i) \notin SpaceSet THEN ch(text, i)
               ELSE IF ch(text, i - 1) \in SpaceSet THEN "" ELSE "_"], 1, Len(text))

NullDiagram == [isNull |-> TRUE, text |-> ""]

\* the diagram made of a header and of the lines appended to it
DiagramOf(header, lines) == [isNull |-> FALSE, text |-> header \o Concat(lines, 1, Len(lines))]

TimelineLines(events) ==
    [i \in 1..Len(events) |->
        "    " \o ToString(events[i].number) \o " : " \o replaceColons(events[i].text) \o "\n"]

TimelineOfEvents(events, title) ==
    IF Len(events) = 0 THEN NullDiagram
    ELSE DiagramOf("timeline\n    title " \o title \o "\n", TimelineLines(events))

generateTimelineDiagram(data, title) ==
    TimelineOfEvents(FirstPresent(data.timeline_data, Absent), title)

FlowchartLines(steps) ==
    [i \in 1..Len(steps) |->
        "    A --> " \o fromCharCode(66 + i - 1) \o "[" \o templateText(steps[i]) \o "]\n"]

FlowchartOfSteps(steps, title) ==
    IF Len(steps) = 0 THEN NullDiagram
    ELSE DiagramOf("flowchart TD\n    A[" \o title \o "]\n", FlowchartLines(steps))

generateFlowchartDiagram(data, title) ==
    FlowchartOfSteps(FirstPresent(data.process_steps, data.focus_areas), title)

MindmapLines(concepts) ==
    [i \in 1..Len(concepts) |-> "    " \o replaceSpaces(concepts[i].text) \o "\n"]

MindmapOfConcepts(concepts, title) ==
    IF Len(concepts) = 0 THEN NullDiagram
    ELSE DiagramOf("mindmap\n  root((" \o title \o "))\n", MindmapLines(concepts))

generateMindmapDiagram(data, title) ==
    MindmapOfConcepts(FirstPresent(data.focus_areas, data.keywords), title)

\* lines 195-198: two lines are appended for every step
SequenceLines(steps) ==
    [i \in 1..Len(steps) |->
        "    User->>Process: Step " \o ToString(i) \o ": " \o templateText(steps[i]) \o "\n"
            \o "    Process-->>User: " \o templateText(steps[i]) \o " Complete\n"]

SequenceOfSteps(steps, title) ==
    IF Len(steps) = 0 THEN NullDiagram
    ELSE DiagramOf("sequenceDiagram\n    participant User\n    participant Process\n",
                   SequenceLines(steps))

generateSequenceDiagram(data, title) ==
    SequenceOfSteps(FirstPresent(data.process_steps, Absent), title)

\* rel.name || `Item ${index + 1}`
NameOr(rel, i) == IF rel.text = "" THEN "Item " \o ToString(i) ELSE rel.text

GraphLines(relationships) ==
    [i \in 1..Len(relationships) |->
        "    A --> " \o fromCharCode(66 + i - 1) \o "[" \o NameOr(relationships[i], i) \o "]\n"]

GraphOfRelationships(relationships, title) ==
    IF Len(relationships) = 0 THEN NullDiagram
    ELSE DiagramOf("graph LR\n    A[" \o title \o "]\n", GraphLines(relationships))

generateGraphDiagram(data, title) ==
    GraphOfRelationships(FirstPresent(data.comparison_data, Absent), title)

\* the case labels of the switch of lines 124-137
DiagramCases == {"timeline", "flowchart", "mindmap", "sequence", "graph"}

generateMermaidDiagram(type, data, title) ==
    CASE type = "timeline"  -> generateTimelineDiagram(data, title)
      [] type = "flowchart" -> generateFlowchartDiagram(data, title)
      [] type = "mindmap"   -> generateMindmapDiagram(data, title)
      [] type = "sequence"  -> generateSequenceDiagram(data, title)
      [] type = "graph"     -> generateGraphDiagram(data, title)
      [] OTHER              -> generateFlowchartDiagram(data, title)

\* the data bag that DynamicResearchResults hands over: the parsed report
StepObjects(steps) == [i \in 1..Len(steps) |-> ObjectItem(steps[i].step, steps[i].order)]

EventObjects(events) == [i \in 1..Len(events) |-> ObjectItem(events[i].event, events[i].year)]

BagOfParsed(parsedData) ==
    [process_steps |-> Listed(StepObjects(parsedData.process_steps)),
     focus_areas |-> Absent,
     keywords |-> Absent,
     timeline_data |-> Listed(EventObjects(parsedData.timeline_data)),
     comparison_data |-> Listed(<<>>)]

\* the data bag made of an analysis
Strings(texts) == [i \in 1..Len(texts) |-> StringItem(texts[i])]

BagOfAnalysis(value) ==
    [process_steps |-> Absent,
     focus_areas |-> Listed(Strings(value.focus_areas)),
     keywords |-> Listed(Strings(value.keywords)),
     timeline_data |-> Absent,
     comparison_data |-> Absent]

(***************************************************************************)
(* The diagram types, data bags and titles the builders are applied to     *)
(***************************************************************************)
DiagramTypes == DiagramCases \cup {"gitgraph", "sankey"}

EmptyBag ==
    [process_steps |-> Absent, focus_areas |-> Absent, keywords |-> Absent,
     timeline_data |-> Absent, comparison_data |-> Absent]

SomeSteps ==
    <<ObjectItem("First gather the data", 1), ObjectItem("Compare the two results", 2),
      ObjectItem("Publish the findings", 3)>>

SomeEvents ==
    <<ObjectItem("Event in 1905", 1905), ObjectItem("Moon landing: the first", 1969),
      ObjectItem("again in 1972", 1972), ObjectItem("Event in 2001", 2001)>>

SomeRelations == <<ObjectItem("Python", 0), ObjectItem("", 0), ObjectItem("Java", 0)>>

DataBags ==
    {EmptyBag,
     BagOfParsed(EmptyParsed),
     BagOfAnalysis(DefaultAnalysis),
     BagOfAnalysis([DefaultAnalysis EXCEPT
                       !.focus_areas = <<"Steps", "Methods", "Requirements", "Best Practices">>,
                       !.keywords = <<"photosynthesis", "work">>]),
     BagOfAnalysis([DefaultAnalysis EXCEPT !.keywords = <<"climate", "change">>]),
     [EmptyBag EXCEPT !.process_steps = Listed(SomeSteps),
                      !.timeline_data = Listed(SomeEvents)],
     [EmptyBag EXCEPT !.process_steps = Listed(<<>>),
                      !.focus_areas = Listed(Strings(<<"Definition", "Key Concepts">>))],
     [EmptyBag EXCEPT !.process_steps = Listed(Strings(<<"Plan the work", "Do the work">>)),
                      !.comparison_data = Listed(SomeRelations)],
     [EmptyBag EXCEPT !.comparison_data = Listed(<<ObjectItem("", 0)>>),
                      !.timeline_data = Listed(<<ObjectItem("Event in 1931", 1931)>>)]}

DiagramTitles == {"Rome", "How does photosynthesis work"}

DiagramInputs == [type : DiagramTypes, data : DataBags, title : DiagramTitles]

NoDiagramInput == [type |-> "", data |-> EmptyBag, title |-> ""]

(***************************************************************************)
(* The queries the analyzer is applied to: an opening followed by a        *)
(* subject, either of which may be empty, or no query at all               *)
(***************************************************************************)
QueryHeads ==
    <<"", "What is ", "Who is ", "Who was ", "How to ", "How does ", "Why did ", "Compare ",
      "Latest news on ", "Quick overview of ", "Detailed analysis of ", "Future trends in ",
      "Explain ", "Define ", "Statistics on ", "   ", "Biography of ", "The life of ">>

QueryTails ==
    <<"", " ", "quantum computing", "Python vs Java", "Marie Curie", "the stock market",
      "photosynthesis work", "xyz", "climate change", "Elon Musk and Tesla Motors",
      "my dog", "football", "in brief", "Rome fell?", "Marie Curie?", "life on Mars",
      "tech trends vs market data">>

QueryTexts ==
    {QueryHeads[h] \o QueryTails[t] : h \in 1..Len(QueryHeads), t \in 1..Len(QueryTails)}

QueryInputs == {JsString(q) : q \in QueryTexts} \cup {Undefined, Null}

NoAnalysis == [raised |-> FALSE, value |-> DefaultAnalysis]

\* the diagram harness at rest
DiagramsIdle ==
    /\ diagramInput = NoDiagramInput
    /\ dstage = "idle"
    /\ diagram = NullDiagram

\* the analyzer harness at rest, while another specification runs
AnalyzerIdle ==
    /\ queryInput = Undefined
    /\ astage = "idle"
    /\ analysis = NoAnalysis
    /\ DiagramsIdle

(***************************************************************************)
(* App.generateContextAwareFollowUps and App.extractProperNouns            *)
(***************************************************************************)
\* lines 824-829: what is returned for an empty report
defaultFollowUps ==
    <<"What are the main challenges in this field?",
      "What future directions are most promising?",
      "Can you explain the key concepts in simpler terms?",
      "What are the practical applications of this research?">>

\* lines 840-853, in the order of Object.entries
domains ==
    <<[name |-> "ai",
       keywords |-> <<"artificial intelligence", "machine learning", "neural network",
                      "deep learning", "algorithm", "data science", "nlp",
                      "natural language processing">>],
      [name |-> "medicine",
       keywords |-> <<"medical", "health", "disease", "patient", "treatment", "clinical",
                      "pharmaceutical", "doctor", "hospital", "drug">>],
      [name |-> "technology",
       keywords |-> <<"technology", "software", "hardware", "digital", "computer",
                      "internet", "tech", "coding", "programming", "web development">>],
      [name |-> "physics",
       keywords |-> <<"physics", "quantum", "particle", "energy", "matter", "force",
                      "relativity", "thermodynamics", "gravity">>],
      [name |-> "business",
       keywords |-> <<"business", "market", "economy", "finance", "investment", "company",
                      "economic", "stock", "entrepreneur", "startup">>],
      [name |-> "environment",
       keywords |-> <<"environment", "climate", "sustainable", "green", "pollution",
                      "ecosystem", "conservation", "renewable", "biodiversity">>],
      [name |-> "psychology",
       keywords |-> <<"psychology", "mental", "behavior", "cognitive", "brain", "therapy",
                      "emotion", "psychologist", "counseling", "mind">>],
      [name |-> "politics",
       keywords |-> <<"politics", "government", "policy", "election", "political",
                      "democracy", "law", "legislation", "voting", "parliament">>],
      [name |-> "entertainment",
       keywords |-> <<"actor", "actress", "movie", "film", "cinema", "hollywood", "director",
                      "celebrity", "entertainment", "star", "performance", "role",
                      "character">>],
      [name |-> "music",
       keywords |-> <<"music", "song", "album", "band", "artist", "singer", "musician",
                      "concert", "genre", "record", "lyrics">>],
      [name |-> "sports",
       keywords |-> <<"sports", "athlete", "player", "team", "game", "competition",
                      "championship", "olympic", "tournament", "match">>],
      [name |-> "history",
       keywords |-> <<"history", "historical", "ancient", "century", "era", "civilization",
                      "empire", "revolution", "dynasty", "medieval">>]>>

RECURSIVE SumSeq(_)
SumSeq(numbers) ==
    IF Len(numbers) = 0 THEN 0 ELSE numbers[1] + SumSeq(SubSeq(numbers, 2, Len(numbers)))

\* lines 862-872: what one keyword adds to the score of its domain
KeywordScore(lowerReport, lowerTopic, keyword) ==
    (IF includes(lowerTopic, keyword) THEN 3 ELSE 0) + CountFrom(lowerReport, keyword, 1)

\* lines 860-874: the score of every domain, by its index in domains
domainRelevanceScores(lowerReport, lowerTopic) ==
    [d \in 1..Len(domains) |->
        SumSeq([k \in 1..Len(domains[d].keywords) |->
                   KeywordScore(lowerReport, lowerTopic, domains[d].keywords[k])])]

\* lines 857 and 877-880
highestScore(scores) == Max({0} \cup {scores[d] : d \in 1..Len(scores)})

\* lines 885-892 with the minimum threshold alone
RelevantAboveMinimum(scores, highest) ==
    {domains[d].name : d \in {e \in 1..Len(scores) : scores[e] >= 2}}

\* lines 885-892: score >= Math.max(minimumThreshold, highestScore * 0.2)
RelevantAmong(scores, highest) ==
    {domains[d].name : d \in {e \in 1..Len(scores) : scores[e] >= 2 /\ 5 * scores[e] >= highest}}

relevantDomains(scores) == RelevantAmong(scores, highestScore(scores))

\* nothing logged: the early return of lines 823-830 comes before lines 894-896
NoLog == [logged |-> FALSE, relevant |-> {}, scores |-> <<>>]

LogOf(scores) == [logged |-> TRUE, relevant |-> relevantDomains(scores), scores |-> scores]

\* lines 894-896: console.log of the relevant domains and of the domain scores
consoleLog(reportText, topicText) ==
    IF reportText = "" THEN NoLog
    ELSE LogOf(domainRelevanceScores(toLowerCase(reportText), toLowerCase(topicText)))

\* lines 899-1044, in order: the questions pushed when domain is relevant ("": whatever
\* the domains) and the report includes one of needs (<<>>: whatever the report)
questionRules ==
    <<[domain |-> "entertainment", needs |-> <<>>,
       questions |-> <<"How has their career evolved over time?",
                       "What were their most critically acclaimed performances?",
                       "How have they influenced the entertainment industry?",
                       "What notable collaborations have they had with other actors or directors?">>],
      [domain |-> "entertainment", needs |-> <<"actor", "actress", "star">>,
       questions |-> <<"What acting techniques or methods are they known for?",
                       "How has their public image changed throughout their career?",
                       "What genres are they most associated with?",
                       "How do critics typically evaluate their performances?">>],
      [domain |-> "ai", needs |-> <<>>,
       questions |-> <<"How does this AI technology compare to existing solutions?",
                       "What ethical concerns arise from this AI application?",
                       "How is this AI technology trained and what data does it use?",
                       "What are the computational requirements for implementing this AI approach?">>],
      [domain |-> "medicine", needs |-> <<>>,
       questions |-> <<"What are the clinical implications of this research?",
                       "Has this treatment been tested in clinical trials?",
                       "What are the potential side effects or risks?",
                       "How does this compare to current standard treatments?">>],
      [domain |-> "technology", needs |-> <<>>,
       questions |-> <<"How scalable is this technology solution?",
                       "What are the implementation challenges for this technology?",
                       "How does this technology integrate with existing systems?",
                       "What are the security implications of this technology?">>],
      [domain |-> "physics", needs |-> <<>>,
       questions |-> <<"How does this align with the standard model of physics?",
                       "What experimental evidence supports these findings?",
                       "What are the theoretical implications of this discovery?",
                       "How might this change our understanding of fundamental forces?">>],
      [domain |-> "business", needs |-> <<>>,
       questions |-> <<"What's the potential market impact of this development?",
                       "How might this affect investment strategies in the sector?",
                       "What companies are leading in this area?",
                       "What's the economic outlook for this industry?">>],
      [domain |-> "environment", needs |-> <<>>,
       questions |-> <<"What are the environmental impacts of this approach?",
                       "How does this contribute to sustainability goals?",
                       "What policy changes might support this environmental solution?",
                       "How does this compare to other conservation strategies?">>],
      [domain |-> "psychology", needs |-> <<>>,
       questions |-> <<"How does this affect our understanding of human behavior?",
                       "What therapeutic applications might this research have?",
                       "How is this measured or assessed in clinical settings?",
                       "What are the social implications of these psychological findings?">>],
      [domain |-> "politics", needs |-> <<>>,
       questions |-> <<"What political factors influence this issue?",
                       "How might this affect policy development?",
                       "What are the regulatory implications?",
                       "How do different political systems approach this issue?">>],
      [domain |-> "music", needs |-> <<>>,
       questions |-> <<"How has their musical style evolved over time?",
                       "What influences can be heard in their work?",
                       "How have they impacted the music industry?",
                       "What are considered their most significant compositions or albums?">>],
      [domain |-> "sports", needs |-> <<>>,
       questions |-> <<"What training methods do they use?",
                       "How do they compare to others in their sport?",
                       "What records or achievements are they known for?",
                       "How have they influenced their sport?">>],
      [domain |-> "history", needs |-> <<>>,
       questions |-> <<"How has this historical event been interpreted over time?",
                       "What primary sources provide insight into this period?",
                       "How did this influence subsequent historical developments?",
                       "What contemporary perspectives exist on this historical topic?">>],
      [domain |-> "", needs |-> <<"challenge", "problem", "difficult">>,
       questions |-> <<"What are the biggest challenges in this area?">>],
      [domain |-> "", needs |-> <<"future", "development", "potential">>,
       questions |-> <<"What future developments are expected in this field?">>],
      [domain |-> "", needs |-> <<"application", "practical", "implement">>,
       questions |-> <<"What are the practical applications of this research?">>],
      [domain |-> "", needs |-> <<"controversy", "debate", "disagree">>,
       questions |-> <<"What are the main points of debate or controversy in this area?">>],
      [domain |-> "", needs |-> <<"compare", "difference", "versus">>,
       questions |-> <<"How does this compare with alternative approaches or perspectives?">>],
      [domain |-> "", needs |-> <<"history", "evolution", "development">>,
       questions |-> <<"How has this subject evolved over time?">>],
      [domain |-> "", needs |-> <<"example", "case study", "instance">>,
       questions |-> <<"Can you provide more specific examples or case studies?">>]>>

\* the test of one of the if statements of lines 899-1044
RuleApplies(rule, relevant, lowerReport) ==
    /\ rule.domain = "" \/ rule.domain \in relevant
    /\ rule.needs = <<>> \/ SomeIncluded(lowerReport, rule.needs)

\* the questions pushed by the rules from the k-th on
RECURSIVE RuleQuestions(_, _, _)
RuleQuestions(k, relevant, lowerReport) ==
    IF k > Len(questionRules) THEN <<>>
    ELSE (IF RuleApplies(questionRules[k], relevant, lowerReport)
          THEN questionRules[k].questions ELSE <<>>)
             \o RuleQuestions(k + 1, relevant, lowerReport)

commonWords ==
    {"I", "The", "A", "An", "This", "That", "These", "Those", "My", "Your", "His", "Her"}

\* /^[A-Z][a-z]+$/.test(word)
IsCapitalised(word) ==
    /\ Len(word) >= 2
    /\ SubSeq(word, 1, 1) \in UpperSet
    /\ \A i \in 2..Len(word) : SubSeq(word, i, i) \in LowerSet

\* lines 1084-1098 for the word at index i (1-based) of words
IsProperNoun(words, i) ==
    /\ i > 1
    /\ Len(words[i]) >= 2
    /\ ch(words[i - 1], Len(words[i - 1])) \notin SentenceEnds
    /\ IsCapitalised(words[i])
    /\ words[i] \notin commonWords

\* lines 1102-1108: the distinct nouns, the most frequent first
ByCount(nouns, keys) ==
    Permute(keys, StableAscending([k \in 1..Len(keys) |->
                                       0 - Cardinality({i \in 1..Len(nouns) : nouns[i] = keys[k]})]))

MostFrequentFirst(nouns) == ByCount(nouns, Dedup(nouns))

ProperNounsAmong(words) ==
    MostFrequentFirst(KeepIndices(words, {i \in 1..Len(words) : IsProperNoun(words, i)}))

extractProperNouns(text) ==
    IF text = "" THEN <<>> ELSE ProperNounsAmong(SplitFrom(text, 1, SpaceSet))

\* line 1048
MainSubject(properNouns, topicText) == IF Len(properNouns) > 0 THEN properNouns[1] ELSE topicText

\* lines 1051-1056
SubjectQuestions(mainSubject) ==
    <<"What are considered " \o mainSubject \o "'s greatest achievements?",
      "How has public perception of " \o mainSubject \o " changed over time?",
      "What are common misconceptions about " \o mainSubject \o "?",
      "What's the historical significance of " \o mainSubject \o "?">>

\* lines 1059-1066
genericQuestions ==
    <<"Can you elaborate more on this topic?",
      "What aspects of this topic are most interesting to researchers?",
      "How has this field evolved in recent years?",
      "What resources would you recommend for learning more about this?">>

\* lines 1059-1066 without the test of the length
WithGenericAlways(questions) == questions \o genericQuestions

WithGeneric(questions) ==
    IF Len(questions) < 4 THEN questions \o genericQuestions ELSE questions

\* lines 833-1066: possibleQuestions before the shuffle
QuestionsFor(reportText, topicText, lowerReport, lowerTopic) ==
    WithGeneric(RuleQuestions(1, relevantDomains(domainRelevanceScores(lowerReport, lowerTopic)),
                              lowerReport)
                    \o SubjectQuestions(MainSubject(extractProperNouns(reportText), topicText)))

possibleQuestions(reportText, topicText) ==
    QuestionsFor(reportText, topicText, toLowerCase(reportText), toLowerCase(topicText))

\* the sequences of n places of 1..size in which a place may come twice
DrawnWithRepeats(size, n) == [1..Min({n, size}) -> 1..size]

\* lines 1069-1070: sort(() => 0.5 - Math.random()) leaves some permutation of the
\* questions, of which slice(0, n) keeps the first n: the places, in 1..size, of the
\* questions kept, for every permutation
ShuffledSlices(size, n) ==
    {s \in [1..Min({n, size}) -> 1..size] :
        \A i \in DOMAIN s : \A j \in DOMAIN s : i # j => s[i] # s[j]}

\* the outcomes of generateContextAwareFollowUps over pool: one for every shuffle
SelectionsFrom(pool) ==
    {[pool |-> pool, selected |-> [i \in DOMAIN s |-> pool[s[i]]]] :
        s \in ShuffledSlices(Len(pool), 4)}

\* generateContextAwareFollowUps(reportText, topic): the set of its possible outcomes
generateContextAwareFollowUps(reportText, topicText) ==
    IF reportText = "" THEN {[pool |-> defaultFollowUps, selected |-> defaultFollowUps]}
    ELSE SelectionsFrom(possibleQuestions(reportText, topicText))

(***************************************************************************)
(* The reports and topics the follow-up generator is applied to            *)
(***************************************************************************)
FollowUpInputs ==
    {[report |-> "", topic |-> "history of Rome"],
     [report |-> "Paris is old.", topic |-> ""],
     [report |-> "Paris is old.", topic |-> "Paris"],
     [report |-> " Old town of Paris and old Paris. Paris in Texas and Texas oil, Texas!",
      topic |-> "towns"],
     [report |-> "The city of Rome was an empire. Rome fell.", topic |-> "history of Rome"],
     [report |-> "The city of Rome was an empire. Rome fell.", topic |-> "Rome"],
     [report |-> "In the Era of the dynasty each empire made history.", topic |-> ""],
     [report |-> "A problem: the debate about The Future. For example Mars.",
      topic |-> "Mars"],
     [report |-> "Quantum physics studies energy. One future challenge.", topic |-> "physics"],
     [report |-> "The star was in one film.", topic |-> "Tom Hanks"],
     [report |-> "Data show it.", topic |-> "machine learning"],
     [report |-> "Doctors treat a patient in the hospital with a drug or another drug.",
      topic |-> "music"],
     [report |-> "Energy, energy, ENERGY: quantum energy and matter, force and gravity. "
                     \o "Physics of energy in a film role.",
      topic |-> "Quantum Physics"]}

NoFollowUps == [pool |-> <<>>, selected |-> <<>>]

\* the follow-up harness at rest, while another specification runs
FollowIdle ==
    /\ followInput = [report |-> "", topic |-> ""]
    /\ fstage = "idle"
    /\ followUps = NoFollowUps
    /\ followLog = NoLog

(***************************************************************************)
(* App: the values handleSubmit works on                                   *)
(***************************************************************************)
\* the report field of a response body, the report held in results and the report
\* state: a string, an object with the fields full_report and summary ("" for a field
\* that is missing), or nothing
TextReport(text) == [t |-> "string", v |-> text, full_report |-> "", summary |-> ""]

ObjectReport(full, sum) == [t |-> "object", v |-> "", full_report |-> full, summary |-> sum]

NoReport == [t |-> "undefined", v |-> "", full_report |-> "", summary |-> ""]

\* !!x for such a value
Truthy(x) == x.t = "object" \/ (x.t = "string" /\ x.v # "")

\* currentResults before any research has succeeded (null)
NoResults == [isNull |-> TRUE, report |-> NoReport, summary |-> "", suggested_questions |-> <<>>]

\* String.prototype.startsWith
startsWith(s, prefix) == HasAt(s, prefix, 1)

\* lines 76-80
promptRefinementKeywords ==
    <<"refine prompt", "improve prompt", "enhance prompt", "better prompt", "optimize prompt",
      "refine my prompt", "improve my prompt", "enhance my prompt", "make prompt better",
      "help with prompt", "prompt help">>

\* lines 82-84
isPromptRefinementRequest(text) == SomeIncluded(toLowerCase(text), promptRefinementKeywords)

\* lines 111-116
imageKeywords ==
    <<"generate image", "create image", "make image", "draw", "picture of", "image of",
      "show me", "visualize", "illustrate", "create a picture", "generate a picture",
      "make a picture", "draw me", "sketch", "artwork", "create art", "design", "render",
      "paint", "create visual", "generate a visual">>

\* lines 119-122
imageStartPhrases ==
    <<"draw", "create", "generate", "make", "show", "visualize", "illustrate", "paint",
      "sketch", "design", "render">>

\* lines 126-130 (a text that starts with phrase + ' a ' starts with phrase + ' ')
StartsWithPhrase(lowerText) ==
    \E k \in 1..Len(imageStartPhrases) :
        \/ startsWith(lowerText, imageStartPhrases[k] \o " ")
        \/ startsWith(lowerText, imageStartPhrases[k] \o " a ")
        \/ startsWith(lowerText, imageStartPhrases[k] \o " an ")

ImageAsked(lowerText) == SomeIncluded(lowerText, imageKeywords) \/ StartsWithPhrase(lowerText)

\* lines 124-130
isImageRequest(text) == ImageAsked(toLowerCase(text))

\* lines 86, 132, 138: the kind of request handleSubmit starts for a topic
RequestKind(text) ==
    IF isPromptRefinementRequest(text) THEN "refine"
    ELSE IF isImageRequest(text) THEN "image"
    ELSE "research"

\* Array.prototype.join(' ')
RECURSIVE JoinWithSpace(_)
JoinWithSpace(parts) ==
    IF Len(parts) = 0 THEN ""
    ELSE IF Len(parts) = 1 THEN parts[1]
    ELSE parts[1] \o " " \o JoinWithSpace(SubSeq(parts, 2, Len(parts)))

\* lines 201-202
FirstSentences(text) == JoinWithSpace(Take(MatchAll("sentence", text), 3))

\* lines 181-183
ReportData(data) ==
    IF data.report.t = "string" THEN [full_report |-> data.report.v, summary |-> ""]
    ELSE [full_report |-> data.report.full_report, summary |-> data.report.summary]

\* lines 189-193, reportData being the value of lines 181-183
ResultsFrom(data, reportData) ==
    [isNull |-> FALSE,
     report |-> IF reportData.full_report # "" THEN TextReport(reportData.full_report)
                ELSE data.report,
     summary |-> IF data.summary # "" THEN data.summary ELSE reportData.summary,
     suggested_questions |-> data.suggested_questions]

ResultsOf(data) == ResultsFrom(data, ReportData(data))

\* the responses of the research endpoint, as handleSubmit sees them:
\*   rejected      fetch rejects: the server cannot be reached
\*   aborted       the abort timer fired: fetch, or the read of the body, rejects with
\*                 an AbortError
\*   status        a response whose ok is false, with its body text
\*   invalid_json  a 2xx response whose body res.json() cannot parse
\*   json          a 2xx response with a JSON body, data
NoData == [isNull |-> TRUE, report |-> NoReport, summary |-> "", suggested_questions |-> <<>>]

Reply(kind, errorText, data) == [kind |-> kind, errorText |-> errorText, data |-> data]

Body(reportField, sum, questions) ==
    [isNull |-> FALSE, report |-> reportField, summary |-> sum, suggested_questions |-> questions]

\* the responses the research endpoint is given in this model
StringBody == Body(TextReport("Rome fell in 476. It rose! Why? Nobody knows."), "", <<>>)

ObjectBody ==
    Body(ObjectReport("The empire of Rome fell", "Rome in short."), "", <<"What about Gaul?">>)

ShapelessBody == Body(ObjectReport("", ""), "", <<>>)

SummaryOnlyBody == Body(ObjectReport("", ""), "Only a summary.", <<>>)

EmptyBody == Body(NoReport, "A summary without report.", <<>>)

NoError == ""

ResearchReplies ==
    {Reply("rejected", NoError, NoData), Reply("aborted", NoError, NoData),
     Reply("status", "Internal Server Error", NoData),
     Reply("invalid_json", NoError, NoData),
     Reply("json", NoError, EmptyBody), Reply("json", NoError, StringBody),
     Reply("json", NoError, ObjectBody), Reply("json", NoError, ShapelessBody),
     Reply("json", NoError, SummaryOnlyBody)}

\* the report texts among the responses, each with the summary that lines 201-202 make
\* of it: the summaries are computed once, here, and looked up by SummaryText
ReportStrings ==
    {reply.data.report.v : reply \in ResearchReplies}
        \cup {reply.data.report.full_report : reply \in ResearchReplies}

Summaries == [text \in ReportStrings |-> FirstSentences(text)]

\* line 199
NeedsSummary(results) == results.summary = "" \/ trim(results.summary) = ""

\* lines 198-203, for results whose report is a string
SummaryText(results) ==
    IF NeedsSummary(results) THEN Summaries[results.report.v] ELSE results.summary

\* lines 167-178: the response does not pass the checks made before the report is read
FailsAtBoundary(reply) ==
    \/ reply.kind \in {"rejected", "aborted", "status", "invalid_json"}
    \/ reply.data.isNull
    \/ ~Truthy(reply.data.report)

\* line 201: results.report.match is called on a report that is no string
ThrowsInSummary(results) == NeedsSummary(results) /\ results.report.t # "string"

\* line 833, reached from line 206: reportText.toLowerCase is called on a report that
\* is no string
ThrowsInFollowUps(results) == ~ThrowsInSummary(results) /\ results.report.t # "string"

\* the error that reaches the catch block of handleSubmit.  The text of a TypeError is
\* the engine's; it is written here as V8 words it.
ErrorOf(reply) ==
    CASE reply.kind = "rejected" -> [name |-> "TypeError", message |-> "Failed to fetch"]
      [] reply.kind = "aborted" ->
             [name |-> "AbortError", message |-> "The user aborted a request."]
      [] reply.kind = "status" ->
             [name |-> "Error",
              message |-> IF reply.errorText # "" THEN reply.errorText
                          ELSE "Server returned 500"]
      [] reply.kind = "invalid_json" ->
             [name |-> "SyntaxError", message |-> "Unexpected token < in JSON at position 0"]
      [] FailsAtBoundary(reply) ->
             [name |-> "Error", message |-> "Invalid response format from server"]
      [] ThrowsInSummary(ResultsOf(reply.data)) ->
             [name |-> "TypeError", message |-> "results.report.match is not a function"]
      [] OTHER ->
             [name |-> "TypeError", message |-> "reportText.toLowerCase is not a function"]

\* lines 239-241
ErrorText(e) ==
    IF e.name = "AbortError"
    THEN "The research took longer than 4 minutes to complete. Please try a more specific query or try again."
    ELSE "Error: " \o (IF e.message # "" THEN e.message ELSE "An unknown error occurred")

\* lines 247-251
ErrorState(e) ==
    IF e.name = "AbortError"
    THEN "Research request timed out after 4 minutes. Please try a more specific query or try again later."
    ELSE IF e.message # "" THEN e.message ELSE "An unknown error occurred"

(***************************************************************************)
(* App: the messages of the chat.  req is not a field of the code's        *)
(* messages: it records the request (its index in requests) that the       *)
(* message was made for, 0 for the welcome message; followArgs records the *)
(* arguments of the generateContextAwareFollowUps call that made           *)
(* suggestedFollowUps, in place of the four questions drawn.               *)
(***************************************************************************)
NoArgs == [called |-> FALSE, report |-> NoReport, topic |-> ""]

Message(id, sender, text, req) ==
    [id |-> id, sender |-> sender, text |-> text, isTyping |-> FALSE, isError |-> FALSE,
     hasDetails |-> FALSE, followArgs |-> NoArgs, req |-> req]

\* lines 65-70
UserMessage(id, text, req) == Message(id, "user", text, req)

\* lines 151-156, 673-678, 730-735
TypingMessage(id, text, req) == [Message(id, "assistant", text, req) EXCEPT !.isTyping = TRUE]

\* lines 237-245, 709-715, 789-795
ErrorMessage(id, text, req) == [Message(id, "assistant", text, req) EXCEPT !.isError = TRUE]

\* lines 209-217
AssistantMessage(id, text, args, req) ==
    [Message(id, "assistant", IF text # "" THEN text ELSE "Here's what I found on this topic.", req)
        EXCEPT !.hasDetails = TRUE, !.followArgs = args]

\* lines 807-814
WelcomeMessage(id) ==
    Message(id, "assistant", "Hello! I'm your AI research assistant.", 0)

\* prev.filter(msg => msg.id !== typingId)
WithoutId(list, typingId) ==
    KeepIndices(list, {i \in 1..Len(list) : list[i].id # typingId})

\* prev.filter(msg => !msg.isTyping)
WithoutTyping(list) == KeepIndices(list, {i \in 1..Len(list) : ~list[i].isTyping})

(***************************************************************************)
(* App: the requests in flight.  A request is one call of handleSubmit     *)
(* that went past line 59: the values its closure holds, its typing        *)
(* indicator, its abort timer, and a record of what its continuation did.  *)
(***************************************************************************)
MaxRequests == 2

MaxNow == 1

\* lines 90-96, as the phrase each pattern starts with
refinePatterns ==
    <<"refine prompt", "improve prompt", "enhance prompt", "better prompt for", "optimize prompt">>

\* the capture of /phrase:?\s*(.*)/i when the phrase is found at index i (0: no match):
\* an optional colon, then white space, are skipped; the rest of the line is captured
AfterColon(text, i) == IF ch(text, i) = ":" THEN i + 1 ELSE i

RestOfLine(text, i) == SubSeq(text, i, RunEndNot(text, i, {"\n"}))

Captured(text, phrase, i) ==
    IF i = 0 THEN ""
    ELSE RestOfLine(text, RunEnd(text, AfterColon(text, i + Len(phrase)), SpaceSet) + 1)

\* lines 99-101, for one pattern
CaptureOf(text, phrase) == trim(Captured(text, phrase, indexOf(toLowerCase(text), phrase)))

\* lines 88-104
RECURSIVE PromptFrom(_, _)
PromptFrom(text, k) ==
    IF k > Len(refinePatterns) THEN text
    ELSE IF CaptureOf(text, refinePatterns[k]) # "" THEN CaptureOf(text, refinePatterns[k])
    ELSE PromptFrom(text, k + 1)

promptToRefine(text) == PromptFrom(text, 1)

\* the body of the request sent: lines 161, 684, 741
SentFor(kind, text) == IF kind = "refine" THEN promptToRefine(text) ELSE text

\* lines 153, 675, 732
TypingText(kind) ==
    CASE kind = "research" -> "Researching..."
      [] kind = "refine" -> "Refining your prompt..."
      [] OTHER -> "Refining your prompt and generating image..."

\* the request handleSubmit starts at time t from a closure that holds text as topic
\* and staleTopic as currentResearchTopic
Request(kind, text, staleTopic, t) ==
    [kind |-> kind, text |-> text, sent |-> SentFor(kind, text), staleTopic |-> staleTopic,
     typingId |-> t + 1, status |-> "inflight", timer |-> "armed", outcome |-> "none",
     calls |-> {}, followArgs |-> NoArgs, replies |-> <<>>]

\* lines 71 and 151-156 (673-678, 730-735)
StartMessages(list, kind, text, t, req) ==
    Append(Append(list, UserMessage(t, text, req)), TypingMessage(t + 1, TypingText(kind), req))

\* how a research request ended, from the response
Outcome(reply) ==
    CASE reply.kind # "json" -> reply.kind
      [] reply.data.isNull -> "no_report"
      [] ~Truthy(reply.data.report) -> "no_report"
      [] ThrowsInSummary(ResultsOf(reply.data)) -> "bad_shape"
      [] ThrowsInFollowUps(ResultsOf(reply.data)) -> "bad_shape"
      [] OTHER -> "ok"

\* lines 167-229 run to the end without a throw
Succeeds(reply) == Outcome(reply) = "ok"

\* line 195 is reached: the response passed the checks of lines 167-178
ReachesResults(reply) == ~FailsAtBoundary(reply)

\* the functions of the extraction core that the continuation of a research request
\* calls (lines 206, 223, 229; formatReport runs at line 820 of the next render, on the
\* report set at line 220)
CallsOf(reply) ==
    IF Succeeds(reply)
    THEN {"generateContextAwareFollowUps", "extractAdditionalInfo", "formatReport"}
    ELSE IF ~FailsAtBoundary(reply) /\ ~ThrowsInSummary(ResultsOf(reply.data))
    THEN {"generateContextAwareFollowUps"}
    ELSE {}

\* line 206: the arguments of the call
FollowUpArgs(results, staleTopic) == [called |-> TRUE, report |-> results.report, topic |-> staleTopic]

ArgsOf(reply, staleTopic) ==
    IF "generateContextAwareFollowUps" \in CallsOf(reply)
    THEN FollowUpArgs(ResultsOf(reply.data), staleTopic)
    ELSE NoArgs

\* lines 186 and 218: the message list after a continuation that does not throw
ResultMessages(list, request, results, t, req) ==
    Append(WithoutId(list, request.typingId),
           AssistantMessage(t + 2, SummaryText(results),
                            FollowUpArgs(results, request.staleTopic), req))

\* the catch block without the message of lines 237-245
CatchWithoutMessage(list, e, t, req) == WithoutTyping(list)

\* lines 234-245: the catch block
CatchMessages(list, e, t, req) ==
    Append(WithoutTyping(list), ErrorMessage(t + 3, ErrorText(e), req))

\* line 186 has run before the throw when the response passed the checks
CaughtMessages(list, request, reply, t, req) ==
    CatchMessages(IF ReachesResults(reply) THEN WithoutId(list, request.typingId) ELSE list,
                  ErrorOf(reply), t, req)

\* the message list after the continuation of a research request
SettledMessages(list, request, reply, t, req) ==
    IF Succeeds(reply) THEN ResultMessages(list, request, ResultsOf(reply.data), t, req)
    ELSE CaughtMessages(list, request, reply, t, req)

\* the replies in list that were made for request req: its result and error messages
RepliesIn(list, req) ==
    KeepIndices(list, {i \in 1..Len(list) :
                          list[i].req = req /\ list[i].sender = "assistant" /\ ~list[i].isTyping})

\* the record of a continuation that leaves the abort timer as it is
SettledTimerLeft(request, outcome, calls, args, replies) ==
    [request EXCEPT !.status = "settled", !.outcome = outcome,
                    !.calls = calls, !.followArgs = args, !.replies = replies]

\* lines 253 (718, 799) and the record of the continuation: how it ended, the extraction
\* functions it called, the arguments of line 206, the replies it appended
Settled(request, outcome, calls, args, replies) ==
    [request EXCEPT !.status = "settled", !.timer = "cleared", !.outcome = outcome,
                    !.calls = calls, !.followArgs = args, !.replies = replies]

\* the outcomes of an image or a prompt-refinement request in this model: the abort
\* timer fires; the response is not ok; for an image, the body holds no image; the body
\* is as expected
OtherOutcomes(kind) ==
    {"aborted", "status", "ok"} \cup (IF kind = "image" THEN {"no_image"} ELSE {})

\* lines 688, 746: the typing indicator is removed once fetch has resolved; lines 707,
\* 775 remove it in the catch block.  Either way it is removed by its id.
OtherErrorText(kind, outcome) ==
    (IF kind = "image" THEN "Sorry, I couldn't generate the image: "
     ELSE "Sorry, I couldn't refine your prompt: ")
    \o (CASE outcome = "aborted" ->
                 IF kind = "image" THEN "Image generation took too long."
                 ELSE "The user aborted a request."
          [] outcome = "rejected" -> "Failed to fetch"
          [] outcome = "status" -> "Server returned 500"
          [] outcome = "no_image" -> "Invalid response format from server"
          [] OTHER -> "Unexpected token < in JSON at position 0")

\* lines 697-702, 761-769
OtherReplyText(kind) ==
    IF kind = "image" THEN "Here's your generated image:" ELSE "Here's your refined prompt:"

\* lines 688-717, 746-797
OtherReply(kind, outcome, t, req) ==
    IF outcome = "ok" THEN Message(t, "assistant", OtherReplyText(kind), req)
    ELSE ErrorMessage(t, OtherErrorText(kind, outcome), req)

OtherMessages(list, request, outcome, t, req) ==
    Append(WithoutId(list, request.typingId), OtherReply(request.kind, outcome, t, req))

\* the texts typed into the input field in this model
TopicTexts == {"", "Rome", "history of Rome", "draw a cat", "Refine prompt: a cat"}

\* the chat before the first event
ChatIdle ==
    /\ topic = ""
    /\ currentResearchTopic = ""
    /\ messages = <<>>
    /\ report = NoReport
    /\ summary = ""
    /\ loading = FALSE
    /\ error = ""
    /\ reportModalOpen = FALSE
    /\ currentResults = NoResults
    /\ requests = <<>>
    /\ now = 0
    /\ welcomePending = TRUE

(***************************************************************************)
(* App: formatReport                                                       *)
(***************************************************************************)
\* the lookahead of line 317, (?=##?\s+), at index q
HeadingAhead(s, q) ==
    /\ ch(s, q) = "#"
    /\ \/ ch(s, q + 1) \in SpaceSet
       \/ ch(s, q + 1) = "#" /\ ch(s, q + 2) \in SpaceSet

\* line 317: String.prototype.split with a pattern that matches the empty string
\* splits before every index but the first at which the pattern matches
ChunkStarts(s) == {1} \cup {q \in 2..Len(s) : HeadingAhead(s, q)}

ChunkEnd(s, starts, from) == FirstOr({q \in starts : q > from}, Len(s) + 1) - 1

\* /^(##?\s+)(.+)$/m at index i of a chunk: ^ matches at the start and after a line
\* break; ##? takes a second hash when there is one; \s+ takes white space, line
\* breaks included, and gives back what (.+) needs: one character that is no line
\* break; (.+) runs to the end of its line.  HashesEnd is the index after the hashes,
\* 0 when there is no match so far.
LineStart(c, i) == i = 1 \/ ch(c, i - 1) = "\n"

HashesEnd(c, i) ==
    IF ~LineStart(c, i) \/ ch(c, i) # "#" THEN 0
    ELSE IF ch(c, i + 1) = "#" THEN i + 2
    ELSE i + 1

\* the index at which (.+) starts, the white space being c[w..e]; 0 when no match
TextStartIn(c, w, e) ==
    0 - FirstOr({0 - t : t \in {u \in (w + 1)..(e + 1) : u <= Len(c) /\ ch(c, u) # "\n"}}, 0)

TextStart(c, w) ==
    IF w = 0 \/ ch(c, w) \notin SpaceSet THEN 0
    ELSE TextStartIn(c, w, RunEnd(c, w, SpaceSet))

HeaderTextAt(c, i) == TextStart(c, HashesEnd(c, i))

\* the first match of the pattern in the chunk: the index it starts at, 0 for none
HeaderIndex(c) == FirstOr({i \in 1..Len(c) : HeaderTextAt(c, i) # 0}, 0)

\* headerMatch of line 321, i being the index of the match and t that of group 2
HeaderMatchAt(c, i, t) ==
    IF i = 0 THEN [found |-> FALSE, from |-> 0, to |-> 0, marker |-> "", text |-> ""]
    ELSE [found |-> TRUE, from |-> i, to |-> RunEndNot(c, t, {"\n"}),
          marker |-> SubSeq(c, i, t - 1),
          text |-> SubSeq(c, t, RunEndNot(c, t, {"\n"}))]

HeaderMatchFrom(c, i) == HeaderMatchAt(c, i, IF i = 0 THEN 0 ELSE HeaderTextAt(c, i))

headerMatch(c) == HeaderMatchFrom(c, HeaderIndex(c))

\* Number.prototype.toString of an index
Digit(n) == SubSeq(DigitStr, n + 1, n + 1)

RECURSIVE Decimal(_)
Decimal(n) == IF n < 10 THEN Digit(n) ELSE Decimal(n \div 10) \o Digit(n % 10)

\* line 322
HeaderOf(match, index) ==
    IF match.found THEN trim(match.text)
    ELSE IF index = 0 THEN "Overview"
    ELSE "Section " \o Decimal(index + 1)

\* line 323
LevelOf(match) == IF match.found /\ includes(match.marker, "##") THEN 2 ELSE 1

\* line 324
ContentOf(c, match) ==
    IF match.found
    THEN trim(SubSeq(c, 1, match.from - 1) \o SubSeq(c, match.to + 1, Len(c)))
    ELSE trim(c)

\* lines 319-327 for one chunk.  at is not a field of the code's section: it is the
\* index in the report at which the chunk starts.
Section(c, match, index, at) ==
    [header |-> HeaderOf(match, index), content |-> ContentOf(c, match),
     level |-> LevelOf(match), id |-> "section-" \o Decimal(index), at |-> at]

SectionAt(s, starts, index, at) ==
    Section(SubSeq(s, at, ChunkEnd(s, starts, at)),
            headerMatch(SubSeq(s, at, ChunkEnd(s, starts, at))), index, at)

\* the sections in the order of the array that split returns
SectionsInOrder(s, starts) ==
    [k \in 1..Cardinality(starts) |-> SectionAt(s, starts, k - 1, NthOf(starts, k))]

\* the same with the array reversed
SectionsReversed(s, starts) ==
    [k \in 1..Cardinality(starts) |->
        SectionAt(s, starts, k - 1, NthOf(starts, Cardinality(starts) + 1 - k))]

\* lines 317-327
SectionsOf(s, starts) == SectionsInOrder(s, starts)

\* lines 313-328: formatReport(content), content being a string or absent
formatReport(content) ==
    IF Falsy(content) THEN <<>> ELSE SectionsOf(content.v, ChunkStarts(content.v))

\* the reports formatReport is applied to: at most MaxPieces pieces in a row, or none
MaxPieces == 4

ReportPieces == <<"## B\n", "# A\n", "x\n", "#", "# ", " ", "##  ", "C# is\n">>

RECURSIVE PieceTexts(_)
PieceTexts(n) ==
    IF n = 0 THEN {""}
    ELSE PieceTexts(n - 1)
            \cup {t \o ReportPieces[k] : t \in PieceTexts(n - 1), k \in 1..Len(ReportPieces)}

SectionInputs == {JsString(t) : t \in PieceTexts(MaxPieces)} \cup {Undefined, Null}

\* the formatReport harness at rest, while another specification runs
SectionsIdle ==
    /\ contentInput = Undefined
    /\ sstage = "idle"
    /\ sections = <<>>

(***************************************************************************)
(* SpecFollowUps: generateContextAwareFollowUps applied to a report and a  *)
(* topic; every shuffle is a behaviour                                     *)
(***************************************************************************)
FollowInit ==
    /\ followInput \in FollowUpInputs
    /\ fstage = "init"
    /\ followUps = NoFollowUps
    /\ followLog = NoLog
    /\ ParserIdle
    /\ AnalyzerIdle
    /\ ChatIdle
    /\ SectionsIdle

CallGenerateFollowUps ==
    /\ fstage = "init"
    /\ followLog' = consoleLog(followInput.report, followInput.topic)
    /\ followUps' \in generateContextAwareFollowUps(followInput.report, followInput.topic)
    /\ fstage' = "done"
    /\ UNCHANGED <<followInput, parserVars, analyzerVars, chatVars, sectionVars>>

FollowNext == CallGenerateFollowUps

SpecFollowUps == FollowInit /\ [][FollowNext]_vars

(***************************************************************************)
(* SpecAnalyzer: analyzeQuery applied to an input                          *)
(***************************************************************************)
AnalyzerInit ==
    /\ queryInput \in QueryInputs
    /\ astage = "init"
    /\ analysis = NoAnalysis
    /\ DiagramsIdle
    /\ ParserIdle
    /\ FollowIdle
    /\ ChatIdle
    /\ SectionsIdle

CallAnalyzeQuery ==
    /\ astage = "init"
    /\ analysis' = analyzeQuery(queryInput)
    /\ astage' = "analysed"
    /\ UNCHANGED <<queryInput, diagramInput, dstage, diagram>>
    /\ UNCHANGED <<parserVars, followVars, chatVars, sectionVars>>

AnalyzerNext == CallAnalyzeQuery

SpecAnalyzer == AnalyzerInit /\ [][AnalyzerNext]_vars

(***************************************************************************)
(* SpecDiagrams: generateMermaidDiagram applied to a type, a data bag and  *)
(* a title                                                                 *)
(***************************************************************************)
DiagramsInit ==
    /\ diagramInput \in DiagramInputs
    /\ dstage = "init"
    /\ diagram = NullDiagram
    /\ queryInput = Undefined
    /\ astage = "idle"
    /\ analysis = NoAnalysis
    /\ ParserIdle
    /\ FollowIdle
    /\ ChatIdle
    /\ SectionsIdle

CallGenerateMermaidDiagram ==
    /\ dstage = "init"
    /\ diagram' = generateMermaidDiagram(diagramInput.type, diagramInput.data,
                                         diagramInput.title)
    /\ dstage' = "done"
    /\ UNCHANGED <<queryInput, astage, analysis, diagramInput>>
    /\ UNCHANGED <<parserVars, followVars, chatVars, sectionVars>>

DiagramsNext == CallGenerateMermaidDiagram

SpecDiagrams == DiagramsInit /\ [][DiagramsNext]_vars

(***************************************************************************)
(* SpecParser: parseResearchData applied to an input, then generateChartData *)
(* applied to what it returned                                             *)
(***************************************************************************)
ParserInit ==
    /\ reportInput \in ReportInputs
    /\ pstage = "init"
    /\ parsed = NoOutcome
    /\ chart = NoChart
    /\ flow = NoFlow
    /\ AnalyzerIdle
    /\ FollowIdle
    /\ ChatIdle
    /\ SectionsIdle

CallParseResearchData ==
    /\ pstage = "init"
    /\ parsed' = parseResearchData(reportInput)
    /\ pstage' = "parsed"
    /\ UNCHANGED <<reportInput, chart, flow, analyzerVars, followVars, chatVars, sectionVars>>

CallGenerateChartData(tag) ==
    /\ pstage = "parsed"
    /\ ~parsed.raised
    /\ chart' = [tag |-> tag, result |-> generateChartData(parsed.value, tag)]
    /\ UNCHANGED <<reportInput, pstage, parsed, flow>>
    /\ UNCHANGED <<analyzerVars, followVars, chatVars, sectionVars>>

\* DynamicResearchResults, charts tab: the flowchart of the parsed report, with the
\* query as its title
RenderFlowchart ==
    /\ pstage = "parsed"
    /\ ~parsed.raised
    /\ Truthy(reportInput)
    /\ ~flow.rendered
    /\ flow' = [rendered |-> TRUE,
                result |-> generateMermaidDiagram("flowchart", BagOfParsed(parsed.value),
                                                  ViewQuery)]
    /\ UNCHANGED <<reportInput, pstage, parsed, chart>>
    /\ UNCHANGED <<analyzerVars, followVars, chatVars, sectionVars>>

ParserNext ==
    \/ CallParseResearchData
    \/ \E tag \in ChartTags : CallGenerateChartData(tag)
    \/ RenderFlowchart

SpecParser == ParserInit /\ [][ParserNext]_vars

(***************************************************************************)
(* SpecSections: formatReport applied to a report                          *)
(***************************************************************************)
SectionsInit ==
    /\ contentInput \in SectionInputs
    /\ sstage = "init"
    /\ sections = <<>>
    /\ ParserIdle
    /\ AnalyzerIdle
    /\ FollowIdle
    /\ ChatIdle

CallFormatReport ==
    /\ sstage = "init"
    /\ sections' = formatReport(contentInput)
    /\ sstage' = "done"
    /\ UNCHANGED <<contentInput, parserVars, analyzerVars, followVars, chatVars>>

SectionsNext == CallFormatReport

SpecSections == SectionsInit /\ [][SectionsNext]_vars

(***************************************************************************)
(* Spec: the chat of App.  An action is one handler run up to its first    *)
(* await, or the continuation of a request from the moment its fetch       *)
(* settles to the end of the handler; React renders between two actions,   *)
(* so a handler's closure holds the state of the moment its event occurs.  *)
(***************************************************************************)
Init ==
    /\ ChatIdle
    /\ SectionsIdle
    /\ ParserIdle
    /\ AnalyzerIdle
    /\ FollowIdle

\* line 1188: the user edits the input field
TypeTopic(text) ==
    /\ ~reportModalOpen
    /\ Len(requests) < MaxRequests
    /\ text # topic
    /\ topic' = text
    /\ UNCHANGED <<currentResearchTopic, messages, report, summary, loading, error,
                   reportModalOpen, currentResults, requests, now, welcomePending>>
    /\ UNCHANGED <<parserVars, analyzerVars, followVars, sectionVars>>

\* lines 58-163, 668-686, 723-743: handleSubmit up to the await of fetch, in a closure
\* that holds the current topic and currentResearchTopic
handleSubmit ==
    /\ trim(topic) # ""
    /\ Len(requests) < MaxRequests
    /\ currentResearchTopic' = topic
    /\ messages' = StartMessages(messages, RequestKind(topic), topic, now, Len(requests) + 1)
    /\ topic' = ""
    /\ loading' = (loading \/ RequestKind(topic) = "research")
    /\ error' = IF RequestKind(topic) = "research" THEN "" ELSE error
    /\ requests' = Append(requests, Request(RequestKind(topic), topic, currentResearchTopic, now))
    /\ UNCHANGED <<report, summary, reportModalOpen, currentResults, now, welcomePending>>
    /\ UNCHANGED <<parserVars, analyzerVars, followVars, sectionVars>>

\* lines 1194-1195: the send button, disabled while loading or without a topic
SubmitByButton ==
    /\ ~reportModalOpen
    /\ ~loading
    /\ handleSubmit

\* lines 264-268, 1189: the Enter key in the input field
handleKeyDown ==
    /\ ~reportModalOpen
    /\ handleSubmit

\* lines 259-262 and part_000 lines 386-393: a suggested question of the results view
\* is clicked.  handleSubmit runs in the closure of the click: it returns at line 59
\* when the input field is blank, and submits the text of the input field otherwise,
\* its setTopic("") following the setTopic(question) of line 260.
handleFollowUpQuestion(question) ==
    /\ reportModalOpen
    /\ ~currentResults.isNull
    /\ IF trim(topic) = ""
       THEN /\ topic' = question
            /\ question # topic
            /\ UNCHANGED <<currentResearchTopic, messages, report, summary, loading, error,
                           reportModalOpen, currentResults, requests, now, welcomePending>>
            /\ UNCHANGED <<parserVars, analyzerVars, followVars, sectionVars>>
       ELSE handleSubmit

\* lines 294, 1141: View Dynamic Report on a result message
OpenReport ==
    /\ ~reportModalOpen
    /\ \E i \in 1..Len(messages) : messages[i].hasDetails
    /\ reportModalOpen' = TRUE
    /\ UNCHANGED <<topic, currentResearchTopic, messages, report, summary, loading, error,
                   currentResults, requests, now, welcomePending>>
    /\ UNCHANGED <<parserVars, analyzerVars, followVars, sectionVars>>

\* lines 43-46, 1211, 1226
CloseReport ==
    /\ reportModalOpen
    /\ reportModalOpen' = FALSE
    /\ UNCHANGED <<topic, currentResearchTopic, messages, report, summary, loading, error,
                   currentResults, requests, now, welcomePending>>
    /\ UNCHANGED <<parserVars, analyzerVars, followVars, sectionVars>>

\* lines 165-255: the continuation of research request r when its fetch settles with
\* reply
SettleResearch(r, reply) ==
    /\ r \in 1..Len(requests)
    /\ requests[r].kind = "research"
    /\ requests[r].status = "inflight"
    /\ messages' = SettledMessages(messages, requests[r], reply, now, r)
    /\ currentResults' = IF ReachesResults(reply) THEN ResultsOf(reply.data) ELSE currentResults
    /\ report' = IF Succeeds(reply) THEN ResultsOf(reply.data).report ELSE report
    /\ summary' = IF Succeeds(reply) THEN SummaryText(ResultsOf(reply.data)) ELSE summary
    /\ error' = IF Succeeds(reply) THEN error ELSE ErrorState(ErrorOf(reply))
    /\ loading' = FALSE
    /\ requests' = [requests EXCEPT ![r] = Settled(@, Outcome(reply), CallsOf(reply),
                                                   ArgsOf(reply, @.staleTopic),
                                                   RepliesIn(messages', r))]
    /\ UNCHANGED <<topic, currentResearchTopic, reportModalOpen, now, welcomePending>>
    /\ UNCHANGED <<parserVars, analyzerVars, followVars, sectionVars>>

\* the continuation of request r of the given kind, image or refine
SettleOther(kind, r, outcome) ==
    /\ r \in 1..Len(requests)
    /\ requests[r].kind = kind
    /\ requests[r].status = "inflight"
    /\ messages' = OtherMessages(messages, requests[r], outcome, now, r)
    /\ requests' = [requests EXCEPT ![r] = Settled(@, outcome, {}, NoArgs,
                                                   RepliesIn(messages', r))]
    /\ UNCHANGED <<topic, currentResearchTopic, report, summary, loading, error,
                   reportModalOpen, currentResults, now, welcomePending>>
    /\ UNCHANGED <<parserVars, analyzerVars, followVars, sectionVars>>

\* lines 687-719
SettleRefine(r, outcome) == SettleOther("refine", r, outcome)

\* lines 744-800
SettleImage(r, outcome) == SettleOther("image", r, outcome)

\* lines 804-815: the timer of the mount effect puts the welcome message in place of
\* the list
WelcomeTimer ==
    /\ welcomePending
    /\ welcomePending' = FALSE
    /\ messages' = <<WelcomeMessage(now)>>
    /\ UNCHANGED <<topic, currentResearchTopic, report, summary, loading, error,
                   reportModalOpen, currentResults, requests, now>>
    /\ UNCHANGED <<parserVars, analyzerVars, followVars, sectionVars>>

\* Date.now() advances
Tick ==
    /\ now < MaxNow
    /\ now' = now + 1
    /\ UNCHANGED <<topic, currentResearchTopic, messages, report, summary, loading, error,
                   reportModalOpen, currentResults, requests, welcomePending>>
    /\ UNCHANGED <<parserVars, analyzerVars, followVars, sectionVars>>

SettleSome(r) ==
    \/ \E reply \in ResearchReplies : SettleResearch(r, reply)
    \/ \E outcome \in OtherOutcomes("refine") : SettleRefine(r, outcome)
    \/ \E outcome \in OtherOutcomes("image") : SettleImage(r, outcome)

Next ==
    \/ \E text \in TopicTexts : TypeTopic(text)
    \/ SubmitByButton
    \/ handleKeyDown
    \/ \E k \in 1..Len(currentResults.suggested_questions) :
           handleFollowUpQuestion(currentResults.suggested_questions[k])
    \/ OpenReport
    \/ CloseReport
    \/ \E r \in 1..MaxRequests : \E reply \in ResearchReplies : SettleResearch(r, reply)
    \/ \E r \in 1..MaxRequests : \E outcome \in OtherOutcomes("refine") : SettleRefine(r, outcome)
    \/ \E r \in 1..MaxRequests : \E outcome \in OtherOutcomes("image") : SettleImage(r, outcome)
    \/ WelcomeTimer
    \/ Tick

Spec == Init /\ [][Next]_vars

\* every fetch settles: by a response, a network failure, or the abort timer of lines
\* 144, 670, 726, which is armed before the fetch is made
SpecFair == Spec /\ \A r \in 1..MaxRequests : WF_vars(SettleSome(r))

(***************************************************************************)
(* Properties of SpecParser                                                *)
(***************************************************************************)
\* C2: for every report text, the timeline_data that parseResearchData returns is
\* sorted ascending by year and has at most 8 entries.
TimelineSortedAndCapped ==
    (pstage = "parsed" /\ reportInput.t = "string") =>
        /\ ~parsed.raised
        /\ Len(parsed.value.timeline_data) <= 8
        /\ \A i \in 1..(Len(parsed.value.timeline_data) - 1) :
              parsed.value.timeline_data[i].year <= parsed.value.timeline_data[i + 1].year

\* a text with more than 8 distinct years, first met out of order, has been parsed
TimelineWitness ==
    /\ pstage = "parsed"
    /\ reportInput.t = "string"
    /\ Len(parsed.value.timeline_data) = 8
    /\ Len(Dedup(MatchAll("year", reportInput.v))) > 8
    /\ \E i \in 1..7 : Dedup(MatchAll("year", reportInput.v))[i]
                           # ToString(parsed.value.timeline_data[i].year)

\* C3: for every report text, the entities that parseResearchData returns are sorted
\* non-increasing by frequency and number at most 10.
EntitiesSortedAndCapped ==
    (pstage = "parsed" /\ reportInput.t = "string") =>
        /\ ~parsed.raised
        /\ Len(parsed.value.entities) <= 10
        /\ \A i \in 1..(Len(parsed.value.entities) - 1) :
              parsed.value.entities[i].frequency >= parsed.value.entities[i + 1].frequency

\* a text with more than 10 entities has been parsed, and the most frequent entity
\* is not the first one of the text
EntitiesWitness ==
    /\ pstage = "parsed"
    /\ reportInput.t = "string"
    /\ Len(parsed.value.entities) = 10
    /\ Len(EntityNames(MatchAll("entity", reportInput.v))) > 10
    /\ parsed.value.entities[1].frequency > parsed.value.entities[2].frequency
    /\ parsed.value.entities[1].name # EntityNames(MatchAll("entity", reportInput.v))[1]

\* C8: for every chart-type tag, generateChartData returns null when the list its
\* builder reads is empty (bar and unknown tags: key_metrics; line and timeline:
\* timeline_data; doughnut and bubble: entities; radar: insights) and otherwise a series
\* of at most the builder's cap of values (bar 6, line 8, doughnut 5, radar 6, bubble 8).
ChartNullOrCapped ==
    chart.tag # "" =>
        LET source == CASE chart.tag \in {"line", "timeline"} -> parsed.value.timeline_data
                        [] chart.tag \in {"doughnut", "bubble"} -> parsed.value.entities
                        [] chart.tag = "radar" -> parsed.value.insights
                        [] OTHER -> parsed.value.key_metrics
            cap == CASE chart.tag \in {"line", "timeline", "bubble"} -> 8
                     [] chart.tag = "doughnut" -> 5
                     [] OTHER -> 6
        IN  /\ (Len(source) = 0) = chart.result.isNull
            /\ Len(chart.result.data) <= cap
            /\ Len(chart.result.data) <= Len(source)
            /\ Len(source) > 0 => Len(chart.result.data) > 0

\* a doughnut chart has been asked of a parse with more than 5 entities
ChartWitness ==
    /\ chart.tag = "doughnut"
    /\ Len(parsed.value.entities) > 5
    /\ ~chart.result.isNull
    /\ Len(chart.result.data) = 5

AnalyzeNeverRaises ==
    astage = "analysed" =>
        /\ ~analysis.raised
        /\ (\A table \in {intentPatterns, domainPatterns, researchRules, complexityRules} :
               \A k \in 1..Len(table) :
                  ~SomeIncluded(toLowerCase(queryInput.v), table[k].patterns))
           => /\ analysis.value.intent = "research"
              /\ analysis.value.domain = "general"
              /\ analysis.value.research_type = "general"
              /\ analysis.value.complexity = "comprehensive"
              /\ analysis.value.focus_areas = <<>>
              /\ analysis.value.chart_types = <<>>
              /\ analysis.value.mermaid_diagrams = <<>>

(***************************************************************************)
(* Properties of SpecFollowUps                                             *)
(***************************************************************************)
\* C1: for every non-empty report and every topic, generateContextAwareFollowUps returns
\* exactly 4 questions, each taken from a different place of the candidate pool built
\* for that input, whatever the shuffle does: every set of k of the returned questions
\* is found at k places of the pool at least, and none is found at no place.
FourFromDistinctPlaces ==
    (fstage = "done" /\ followInput.report # "") =>
        /\ Len(followUps.selected) = 4
        /\ \A chosen \in SUBSET (1..4) :
              Cardinality({p \in 1..Len(followUps.pool) :
                              \E i \in chosen : followUps.pool[p] = followUps.selected[i]})
                  >= Cardinality(chosen)

\* four questions have been returned from a pool of more than four, among them a
\* question of a domain, a question of a content pattern and a question on the main
\* subject, and not in the order of the pool
FourFromDistinctPlacesWitness ==
    /\ fstage = "done"
    /\ followInput.report # ""
    /\ Len(followUps.pool) > 4
    /\ followUps.selected[1] = followUps.pool[Len(followUps.pool)]
    /\ followUps.selected[2] = followUps.pool[1]
    /\ followUps.selected[3] = "What are the biggest challenges in this area?"
    /\ followUps.selected[4] = SubjectQuestions(followInput.topic)[2]

(***************************************************************************)
(* Properties of Spec and SpecFair                                         *)
(***************************************************************************)
ResearchInFlight(r) ==
    /\ r \in 1..Len(requests)
    /\ requests[r].kind = "research"
    /\ requests[r].status = "inflight"

ResearchSettled(r) ==
    /\ r \in 1..Len(requests)
    /\ requests[r].kind = "research"
    /\ requests[r].status = "settled"

ErrorCount(list) == Cardinality({i \in 1..Len(list) : list[i].isError})

NetworkSideFailures == {"rejected", "aborted", "status", "invalid_json", "no_report"}

\* the step is the continuation of research request r, ending in a network-side failure
FailsNow(r) ==
    /\ ResearchInFlight(r)
    /\ requests'[r].status = "settled"
    /\ requests'[r].outcome \in NetworkSideFailures

\* the continuation ran to its end (the finally block has run), appended one message
\* flagged isError, the last of the list and made for r, and called no extraction
\* function
CaughtAtBoundary(r) ==
    /\ requests'[r].timer = "cleared"
    /\ loading' = FALSE
    /\ error' # ""
    /\ ErrorCount(messages') = ErrorCount(messages) + 1
    /\ messages'[Len(messages')].isError
    /\ messages'[Len(messages')].req = r
    /\ requests'[r].calls = {}
    /\ ~requests'[r].followArgs.called

\* C4: whenever a research request started by handleSubmit ends in a network-side
\* failure (the abort timer, a response that is not 2xx, a body that is no valid JSON or
\* has no report), the failure is caught inside handleSubmit, exactly one assistant
\* message flagged isError is appended to the chat, and none of the extraction functions
\* is called for that request.
BoundaryFailureCaught ==
    [][\A r \in 1..MaxRequests : FailsNow(r) => CaughtAtBoundary(r)]_vars

BoundaryFailureWitness ==
    \E r \in 1..Len(requests) :
        /\ ResearchSettled(r)
        /\ requests[r].outcome = "no_report"
        /\ requests[r].calls = {}
        /\ \E i \in 1..Len(messages) :
               /\ messages[i].isError
               /\ messages[i].req = r
               /\ messages[i].text = "Error: Invalid response format from server"

\* C5: for every research request, the topic that handleSubmit passes to
\* generateContextAwareFollowUps is the query text submitted in that same request.
FollowUpTopicIsSubmittedQuery ==
    \A r \in 1..Len(requests) :
        requests[r].followArgs.called => requests[r].followArgs.topic = requests[r].text

\* C6: in every reachable state the loading flag is true whenever at least one research
\* request is in flight.
LoadingWhileInFlight ==
    (\E r \in 1..MaxRequests : ResearchInFlight(r)) => loading

TimeoutText ==
    "The research took longer than 4 minutes to complete. Please try a more specific query or try again."

\* the typing indicator of r is gone, one reply was appended for r, its timer is cleared
SettledCleanly(r) ==
    /\ ~\E i \in 1..Len(messages) : messages[i].isTyping /\ messages[i].req = r
    /\ Len(requests[r].replies) = 1
    /\ requests[r].replies[1].isError = (requests[r].outcome # "ok")
    /\ requests[r].replies[1].hasDetails = (requests[r].outcome = "ok")
    /\ (requests[r].outcome = "aborted") = (requests[r].replies[1].text = TimeoutText)
    /\ requests[r].timer = "cleared"

\* C7: every research request started by handleSubmit eventually settles, and once it
\* has settled its own typing indicator is no longer in the message list, exactly one
\* assistant reply for it has been appended, and its abort timer has been cleared.
EveryRequestSettlesCleanly ==
    /\ \A r \in 1..MaxRequests : ResearchInFlight(r) ~> ResearchSettled(r)
    /\ [](\A r \in 1..MaxRequests : ResearchSettled(r) => SettledCleanly(r))

TimedOutWitness ==
    \E r \in 1..Len(requests) :
        /\ ResearchSettled(r)
        /\ requests[r].outcome = "aborted"
        /\ Len(requests[r].replies) = 1
        /\ requests[r].timer = "cleared"
        /\ \E i \in 1..Len(messages) :
               /\ messages[i].req = r
               /\ messages[i].isError
               /\ messages[i].text = TimeoutText
        /\ \E q \in 1..Len(requests) : ResearchSettled(q) /\ requests[q].outcome = "ok"

(***************************************************************************)
(* Properties of SpecSections                                              *)
(***************************************************************************)
\* h occurs in s between the indices from and to
OccursWithin(s, h, from, to) == \E p \in from..(to + 1 - Len(h)) : HasAt(s, h, p)

\* the index before the chunk of section i + 1 starts, the last index for the last one
SpanEnd(i) == IF i < Len(sections) THEN sections[i + 1].at - 1 ELSE Len(contentInput.v)

DefaultHeader(i) == IF i = 1 THEN "Overview" ELSE "Section " \o ToString(i)

\* the header of section i is the default one, or is read from the text of its own
\* chunk, after the hash the chunk starts with
HeaderInPlace(i) ==
    \/ sections[i].header = DefaultHeader(i)
    \/ /\ ch(contentInput.v, sections[i].at) = "#"
       /\ OccursWithin(contentInput.v, sections[i].header, sections[i].at + 1, SpanEnd(i))

\* C11: for every input string, formatReport returns its sections in document order:
\* section i carries the id "section-i" and the headers of the headed sections follow
\* one another as the headings do in the text (each is read from its own chunk, and
\* the chunks start at increasing indices); for the empty string or an absent input it
\* returns the empty sequence.
SectionsInDocumentOrder ==
    sstage = "done" =>
        IF Falsy(contentInput) THEN sections = <<>>
        ELSE /\ Len(sections) >= 1
             /\ sections[1].at = 1
             /\ \A i \in 1..Len(sections) :
                    /\ sections[i].id = "section-" \o ToString(i - 1)
                    /\ i < Len(sections) => sections[i].at < sections[i + 1].at
                    /\ HeaderInPlace(i)

SectionsInOrderWitness ==
    /\ sstage = "done"
    /\ contentInput = JsString("x\n## B\n# A\n")
    /\ Len(sections) = 4
    /\ sections[3].header = "B"
    /\ sections[3].id = "section-2"
    /\ sections[4].header = "A"

(***************************************************************************)
(* Properties of the timeline of parseResearchData (SpecParser)            *)
(***************************************************************************)
\* the four digits of year stand in text at p with no letter, digit or underscore
\* directly before or after them
StandsAloneAt(text, year, p) ==
    /\ SubSeq(text, p, p + 3) = ToString(year)
    /\ ch(text, p - 1) \notin WordSet
    /\ ch(text, p + 4) \notin WordSet

\* the years 1900-2099 that occur in text as standalone four-digit numbers
StandaloneYears(text) ==
    {year \in 1900..2099 : \E p \in 1..(Len(text) - 3) : StandsAloneAt(text, year, p)}

\* the year values of a timeline
YearsOf(timeline) == {timeline[i].year : i \in 1..Len(timeline)}

TimelineYearsFrom(timeline, standalone) ==
    /\ YearsOf(timeline) \subseteq standalone
    /\ standalone = {} => timeline = <<>>
    /\ Cardinality(standalone) <= 8 => standalone \subseteq YearsOf(timeline)

\* C12: for every report text, the years of the timeline that parseResearchData returns
\* are integers 1900-2099 that occur in the text as standalone four-digit numbers; the
\* timeline is empty when the text holds no such year, and it holds every such year
\* when the text has at most 8 distinct ones.
TimelineYearsAreStandalone ==
    (pstage = "parsed" /\ reportInput.t = "string") =>
        /\ ~parsed.raised
        /\ TimelineYearsFrom(parsed.value.timeline_data, StandaloneYears(reportInput.v))

\* the text of the example has been parsed: its timeline holds 1969 and 1972
TimelineYearsWitness ==
    /\ pstage = "parsed"
    /\ reportInput = JsString("The discovery occurred in 1969 and again in 1972.")
    /\ YearsOf(parsed.value.timeline_data) = {1969, 1972}

AtMost8(d) == IF d < 8 THEN d ELSE 8

\* C13: for every report text, the timeline that parseResearchData returns has
\* min(8, d) entries, d being the number of distinct standalone years 1900-2099 of the
\* text, also when d exceeds 10 and only the first 10 years found are considered.
TimelineLengthIsMin8 ==
    (pstage = "parsed" /\ reportInput.t = "string") =>
        Len(parsed.value.timeline_data) = AtMost8(Cardinality(StandaloneYears(reportInput.v)))

\* a text with more than 10 distinct years, one of them repeated among the first 10
\* matches, has been parsed: 8 entries
TimelineLengthWitness ==
    /\ pstage = "parsed"
    /\ reportInput.t = "string"
    /\ Cardinality(StandaloneYears(reportInput.v)) > 10
    /\ Len(Dedup(Take(MatchAll("year", reportInput.v), YearSlice))) < YearSlice
    /\ Len(parsed.value.timeline_data) = 8

(***************************************************************************)
(* Properties of analyzeQuery (SpecAnalyzer)                               *)
(***************************************************************************)
\* the call on the string q has returned
Analysed(q) == astage = "analysed" /\ queryInput = JsString(q) /\ ~analysis.raised

\* C14: analyzeQuery("Compare Python vs Java") returns research_type "comparison" and
\* domain "technology".
ComparePythonVsJava ==
    (astage = "analysed" /\ queryInput = JsString("Compare Python vs Java")) =>
        /\ ~analysis.raised
        /\ analysis.value.research_type = "comparison"
        /\ analysis.value.domain = "technology"

\* the values that lines 80-83 assign together
BiographyBundle(value) ==
    /\ value.research_type = "biography"
    /\ value.focus_areas = <<"Personal Background", "Career", "Achievements", "Impact">>
    /\ value.chart_types = <<"timeline", "achievements">>
    /\ value.mermaid_diagrams = <<"timeline">>

\* s is one of the elements of the sequence seq
Among(s, seq) == \E i \in 1..Len(seq) : seq[i] = s

\* C15: analyzeQuery("Who is Marie Curie?") returns research_type "biography",
\* focus_areas with "Career" and chart_types with "timeline"; every query whose
\* lowercased text contains "who is", "who was", "biography" or "life" gets the
\* biography bundle.
BiographyBundleForBiographyQueries ==
    (astage = "analysed" /\ queryInput.t = "string") =>
        /\ ~analysis.raised
        /\ (\E phrase \in {"who is", "who was", "biography", "life"} :
                includes(toLowerCase(queryInput.v), phrase))
           => BiographyBundle(analysis.value)
        /\ queryInput.v = "Who is Marie Curie?"
           => /\ analysis.value.research_type = "biography"
              /\ Among("Career", analysis.value.focus_areas)
              /\ Among("timeline", analysis.value.chart_types)

\* the query of the example has been analysed
MarieCurieWitness ==
    /\ Analysed("Who is Marie Curie?")
    /\ BiographyBundle(analysis.value)

\* some phrase of the entry k of table is a substring of the lowercased query
EntryMatches(table, k) ==
    \E p \in 1..Len(table[k].patterns) : includes(toLowerCase(queryInput.v), table[k].patterns[p])

\* key is the name of the first entry of table that matches, default when none does
KeyOfFirstMatch(table, key, default) ==
    IF \A k \in 1..Len(table) : ~EntryMatches(table, k) THEN key = default
    ELSE \E k \in 1..Len(table) :
            /\ EntryMatches(table, k)
            /\ \A j \in 1..(k - 1) : ~EntryMatches(table, j)
            /\ key = table[k].name

\* C17: in every analysis, intent is the key of the first entry of the intent table, in
\* declaration order, one of whose phrases is a substring of the lowercased query, and
\* "research" when no entry matches; likewise domain for the domain table, with the
\* default "general".  Entries after the first matching one have no influence.
FirstMatchingEntryWins ==
    (astage = "analysed" /\ queryInput.t = "string") =>
        /\ KeyOfFirstMatch(intentPatterns, analysis.value.intent, "research")
        /\ KeyOfFirstMatch(domainPatterns, analysis.value.domain, "general")

\* a query that matches three intent entries and two domain entries has been analysed
FirstMatchWitness ==
    /\ Analysed("Compare tech trends vs market data")
    /\ Cardinality({k \in 1..Len(intentPatterns) : EntryMatches(intentPatterns, k)}) = 3
    /\ Cardinality({k \in 1..Len(domainPatterns) : EntryMatches(domainPatterns, k)}) = 2
    /\ analysis.value.intent = "comparison"
    /\ analysis.value.domain = "business"

\* the six phrase groups in the order of the chain
GroupOrder ==
    <<"biography", "explanation", "process", "analysis", "comparison", "trend_analysis">>

\* the four fields of value are those of the group k
BundleOf(value, k) ==
    /\ value.research_type = GroupOrder[k]
    /\ value.research_type = researchRules[k].name
    /\ value.focus_areas = researchRules[k].focus_areas
    /\ value.chart_types = researchRules[k].chart_types
    /\ value.mermaid_diagrams = researchRules[k].mermaid_diagrams

\* C18: in every analysis, research_type, focus_areas, chart_types and mermaid_diagrams
\* all come from one phrase group, the first that matches the lowercased query in the
\* order biography, explanation, process, analysis, comparison, trend; when no group
\* matches they are "general" and three empty lists.
OneGroupSetsTheBundle ==
    (astage = "analysed" /\ queryInput.t = "string") =>
        IF \A k \in 1..Len(researchRules) : ~EntryMatches(researchRules, k)
        THEN /\ analysis.value.research_type = "general"
             /\ analysis.value.focus_areas = <<>>
             /\ analysis.value.chart_types = <<>>
             /\ analysis.value.mermaid_diagrams = <<>>
        ELSE \E k \in 1..Len(researchRules) :
                /\ EntryMatches(researchRules, k)
                /\ \A j \in 1..(k - 1) : ~EntryMatches(researchRules, j)
                /\ BundleOf(analysis.value, k)

\* a query that matches the process group and the comparison group has been analysed
TwoGroupsWitness ==
    /\ Analysed("How does Python vs Java")
    /\ EntryMatches(researchRules, 3)
    /\ EntryMatches(researchRules, 5)
    /\ BundleOf(analysis.value, 3)

(***************************************************************************)
(* Properties of the domain scores of generateContextAwareFollowUps        *)
(* (SpecFollowUps)                                                         *)
(***************************************************************************)
\* the keywords of the domain d that the text contains
KeywordsWithin(d, text) ==
    {k \in 1..Len(domains[d].keywords) : includes(text, domains[d].keywords[k])}

\* the places of text where a keyword of the domain d stands, by keyword
KeywordPlaces(d, text) ==
    {place \in (1..Len(domains[d].keywords)) \X (1..Len(text)) :
        HasAt(text, domains[d].keywords[place[1]], place[2])}

ScoreOf(d, lowerReport, lowerTopic) ==
    3 * Cardinality(KeywordsWithin(d, lowerTopic)) + Cardinality(KeywordPlaces(d, lowerReport))

\* score is at least max(2, 0.2 * highest)
AtLeastThreshold(score, highest) == score >= 2 /\ 10 * score >= 2 * highest

\* the scores of the claim for every report and topic of the harness
SpecifiedScores ==
    [input \in FollowUpInputs |->
        [d \in 1..12 |-> ScoreOf(d, toLowerCase(input.report), toLowerCase(input.topic))]]

ScoresAsSpecified(log, specified) ==
    /\ log.logged
    /\ Len(domains) = 12
    /\ log.scores = specified
    /\ log.relevant =
           {domains[d].name :
               d \in {e \in 1..12 :
                         AtLeastThreshold(log.scores[e],
                                          Max({log.scores[f] : f \in 1..12}))}}
    /\ \A d \in 1..12 : log.scores[d] < 2 => domains[d].name \notin log.relevant

\* C19: in generateContextAwareFollowUps, the score of each of the 12 domains is 3 times
\* the number of its keywords contained in the lowercased topic plus the number of
\* occurrences of its keywords in the lowercased report, and the relevant domains are
\* exactly those whose score is at least max(2, 0.2 * the highest score); so no domain
\* with a score below 2 is relevant, and several can be relevant at once.
DomainScoresAndThreshold ==
    (fstage = "done" /\ followInput.report # "") =>
        ScoresAsSpecified(followLog, SpecifiedScores[followInput])

\* two domains are relevant at once, a third has a score below 2 that is not 0
SeveralRelevantWitness ==
    /\ fstage = "done"
    /\ followLog.logged
    /\ followLog.relevant = {"medicine", "music"}
    /\ followLog.scores[2] = 5
    /\ followLog.scores[10] = 3

\* a domain with the score 2 is not relevant, the highest score being above 10
BelowFifthWitness ==
    /\ fstage = "done"
    /\ followLog.logged
    /\ followLog.scores[4] > 10
    /\ followLog.scores[9] = 2
    /\ followLog.relevant = {"physics"}

(***************************************************************************)
(* Properties of the insights of parseResearchData (SpecParser)            *)
(***************************************************************************)
\* where the sentences of text start: at its first character and after every ., ! or ?
SentenceStarts(text) ==
    {1} \cup {a \in 2..(Len(text) + 1) : ch(text, a - 1) \in SentenceEnds}

\* the sentence that starts at a: up to the next ., ! or ?, or to the end of the text
SentenceFrom(text, a) ==
    SubSeq(text, a,
           Min({j \in a..Len(text) : ch(text, j) \in SentenceEnds} \cup {Len(text) + 1}) - 1)

\* the importance keywords that the text contains, in any case
KeywordsIn(text) ==
    {k \in 1..Len(insightKeywords) : includes(toLowerCase(text), insightKeywords[k])}

Qualifies(sentence) ==
    /\ KeywordsIn(sentence) # {}
    /\ Len(trim(sentence)) > 20
    /\ Len(trim(sentence)) < 200

ImportanceOf(text) == Cardinality(KeywordsIn(text)) + (IF Len(text) > 50 THEN 1 ELSE 0)

Candidate(a, trimmed) == [at |-> a, text |-> trimmed, importance |-> ImportanceOf(trimmed)]

\* the qualifying sentences of every report text, each with the index it starts at
Candidates ==
    [text \in ReportTexts |->
        {Candidate(a, trim(SentenceFrom(text, a))) :
            a \in {b \in SentenceStarts(text) : Qualifies(SentenceFrom(text, b))}}]

\* the place of the candidate c among candidates: after those of a higher importance
\* and after those of the same importance that come before it in the text
PlaceOf(c, candidates) ==
    1 + Cardinality({o \in candidates :
                        \/ o.importance > c.importance
                        \/ o.importance = c.importance /\ o.at < c.at})

\* insights holds the candidates of the places 1 to 8, each at its place
HoldsTopEight(insights, candidates) ==
    /\ Len(insights) = AtMost8(Cardinality(candidates))
    /\ \A c \in candidates :
          PlaceOf(c, candidates) <= 8 =>
              /\ insights[PlaceOf(c, candidates)].text = c.text
              /\ insights[PlaceOf(c, candidates)].importance = c.importance

\* C20: for every report text, parsed.insights holds at most 8 records sorted
\* descending by importance; each is a sentence of the text with at least one
\* importance keyword and a trimmed length strictly between 20 and 200, its importance
\* the number of distinct importance keywords it contains plus 1 if it is longer than
\* 50; when more than 8 sentences qualify, the 8 of the highest importance are kept,
\* equal ones in document order.
InsightsAreTopEight ==
    (pstage = "parsed" /\ reportInput.t = "string") =>
        /\ ~parsed.raised
        /\ Len(parsed.value.insights) <= 8
        /\ \A i \in 1..(Len(parsed.value.insights) - 1) :
              parsed.value.insights[i].importance >= parsed.value.insights[i + 1].importance
        /\ HoldsTopEight(parsed.value.insights, Candidates[reportInput.v])

\* nine sentences qualify, three of them with the importance 1: the last of the three
\* in the text is the one left out
InsightsWitness ==
    /\ pstage = "parsed"
    /\ reportInput.t = "string"
    /\ Cardinality(Candidates[reportInput.v]) = 9
    /\ Len(parsed.value.insights) = 8
    /\ parsed.value.insights[1] =
           [text |-> "A major and crucial finding was made in the primary study",
            importance |-> 4]
    /\ parsed.value.insights[7] = [text |-> "This is a key point here", importance |-> 1]
    /\ parsed.value.insights[8] =
           [text |-> "Our primary aim is to stay here", importance |-> 1]

\* of the sentences of 20, 21, 50 and 51 characters the first is left out, and only the
\* last has the importance 2
InsightLengthsWitness ==
    /\ pstage = "parsed"
    /\ reportInput.t = "string"
    /\ Len(parsed.value.insights) = 3
    /\ Len(parsed.value.insights[1].text) = 51
    /\ parsed.value.insights[1].importance = 2
    /\ parsed.value.insights[2] = [text |-> "A key is needed there", importance |-> 1]
    /\ Len(parsed.value.insights[3].text) = 50
    /\ includes(reportInput.v, "A key is needed here.")

(***************************************************************************)
(* Properties of the process steps of parseResearchData (SpecParser)       *)
(***************************************************************************)
\* for every report text and marker pattern, the texts its matches leave once the
\* marker is stripped
StrippedMatches ==
    [text \in ReportTexts |->
        [p \in 1..4 |->
            {StripMarker(MatchAll(stepPatterns[p], text)[i]) :
                i \in 1..Len(MatchAll(stepPatterns[p], text))}]]

\* the ways of cutting n steps into four runs, one per pattern, of at most 8 each
Cuts(n) ==
    {c \in (0..n) \X (0..n) \X (0..n) :
        /\ c[1] <= c[2] /\ c[2] <= c[3]
        /\ c[1] <= 8 /\ c[2] - c[1] <= 8 /\ c[3] - c[2] <= 8 /\ n - c[3] <= 8}

RunOf(k, c) == IF k <= c[1] THEN 1 ELSE IF k <= c[2] THEN 2 ELSE IF k <= c[3] THEN 3 ELSE 4

\* the steps are four runs of at most 8, the steps of run p coming from pattern p
AtMost8PerPattern(steps, stripped) ==
    \E c \in Cuts(Len(steps)) : \A k \in 1..Len(steps) : steps[k].step \in stripped[RunOf(k, c)]

\* C21: for every report text, the order values of parsed.process_steps are 1, 2, ..., n
\* in list position, each of the four marker patterns contributes at most 8 steps (so
\* n <= 32), and the trimmed text of every step is longer than 10 and shorter than 150.
StepsNumberedAndCapped ==
    (pstage = "parsed" /\ reportInput.t = "string") =>
        /\ ~parsed.raised
        /\ Len(parsed.value.process_steps) <= 32
        /\ \A k \in 1..Len(parsed.value.process_steps) :
              /\ parsed.value.process_steps[k].order = k
              /\ Len(trim(parsed.value.process_steps[k].step)) > 10
              /\ Len(trim(parsed.value.process_steps[k].step)) < 150
        /\ AtMost8PerPattern(parsed.value.process_steps, StrippedMatches[reportInput.v])

StepTexts == {parsed.value.process_steps[k].step : k \in 1..Len(parsed.value.process_steps)}

\* steps of two patterns have been numbered through, and an item that the dash pattern
\* matches after its first 8 matches is not among them
StepsWitness ==
    /\ pstage = "parsed"
    /\ reportInput.t = "string"
    /\ Len(parsed.value.process_steps) = 7
    /\ parsed.value.process_steps[2].step = "Summarise everything now\n- Write up the lessons"
    /\ parsed.value.process_steps[3] = [step |-> "Write the final report", order |-> 3]
    /\ parsed.value.process_steps[7] = [step |-> "Plan the next study", order |-> 7]
    /\ "Write up the lessons" \in StrippedMatches[reportInput.v][4]
    /\ "Write up the lessons" \notin StepTexts

\* of the items of 10 and 11 characters the second is a step, and so is the one of 149
\* characters of the items of 150 and 149
StepLengthsWitness ==
    /\ pstage = "parsed"
    /\ reportInput.t = "string"
    /\ Len(parsed.value.process_steps) = 1
    /\ Len(parsed.value.process_steps[1].step) \in {11, 149}

(***************************************************************************)
(* Properties of generateMermaidDiagram (SpecDiagrams)                     *)
(***************************************************************************)
\* the list a builder works on: the first of the lists it names that the bag has
RequiredItems(type, data) ==
    CASE type = "timeline"  -> data.timeline_data.items
      [] type = "flowchart" -> IF data.process_steps.present THEN data.process_steps.items
                               ELSE data.focus_areas.items
      [] type = "mindmap"   -> IF data.focus_areas.present THEN data.focus_areas.items
                               ELSE data.keywords.items
      [] type = "sequence"  -> data.process_steps.items
      [] type = "graph"     -> data.comparison_data.items

TypeHeader(type, title) ==
    CASE type = "timeline"  -> "timeline\n    title " \o title \o "\n"
      [] type = "flowchart" -> "flowchart TD\n    A[" \o title \o "]\n"
      [] type = "mindmap"   -> "mindmap\n  root((" \o title \o "))\n"
      [] type = "sequence"  -> "sequenceDiagram\n    participant User\n    participant Process\n"
      [] type = "graph"     -> "graph LR\n    A[" \o title \o "]\n"

HeaderLines(type) == IF type = "sequence" THEN 3 ELSE 2

\* what a line shows of the item it was written for, the i-th of its list
ShownOf(type, item, i) ==
    CASE type = "timeline"  -> ToString(item.number) \o " : "
      [] type = "flowchart" -> "[" \o templateText(item) \o "]"
      [] type = "mindmap"   -> replaceSpaces(item.text)
      [] type = "sequence"  -> templateText(item)
      [] type = "graph"     -> IF item.text = "" THEN "[Item " \o ToString(i) \o "]"
                               ELSE "[" \o item.text \o "]"

\* the lines of text, the empty one after its last line break included
LinesOf(text) == SplitFrom(text, 1, {"\n"})

\* lines are those of the header, then perItem lines for every item in the order of
\* items, each showing its item
LinesFollowItems(type, lines, items, perItem) ==
    /\ Len(lines) = HeaderLines(type) + perItem * Len(items) + 1
    /\ lines[Len(lines)] = ""
    /\ \A i \in 1..Len(items) : \A j \in 1..perItem :
          includes(lines[HeaderLines(type) + perItem * (i - 1) + j], ShownOf(type, items[i], i))

\* the diagram is null for no item and otherwise the header of the type and perItem
\* lines for every item
BuiltFrom(type, title, items, result, perItem) ==
    IF items = <<>> THEN result.isNull
    ELSE /\ ~result.isNull
         /\ HasAt(result.text, TypeHeader(type, title), 1)
         /\ LinesFollowItems(type, LinesOf(result.text), items, perItem)

\* C22 as stated: for each of the five diagram types, the builder returns null when
\* its required input list is empty, and otherwise the header of the type followed by
\* exactly one line per input item, in input order.
OneLinePerItem ==
    (dstage = "done" /\ diagramInput.type \in DiagramCases) =>
        BuiltFrom(diagramInput.type, diagramInput.title,
                  RequiredItems(diagramInput.type, diagramInput.data), diagram, 1)

LinesPerItem(type) == IF type = "sequence" THEN 2 ELSE 1

\* C22 as amended: for each of the five diagram types, the builder returns null when
\* its required input list is empty, and otherwise the header of the type followed, in
\* input order, by exactly one line per input item for timeline, flowchart, mindmap
\* and graph, and by exactly two lines per input item for sequence (item texts
\* without line breaks).
OneEntryPerItem ==
    (dstage = "done" /\ diagramInput.type \in DiagramCases) =>
        BuiltFrom(diagramInput.type, diagramInput.title,
                  RequiredItems(diagramInput.type, diagramInput.data), diagram,
                  LinesPerItem(diagramInput.type))

\* a sequence diagram of two steps has been built: three header lines and four more
SequenceWitness ==
    /\ dstage = "done"
    /\ diagramInput.type = "sequence"
    /\ Len(diagramInput.data.process_steps.items) = 2
    /\ ~diagram.isNull
    /\ Len(LinesOf(diagram.text)) = 8
    /\ LinesOf(diagram.text)[4] = "    User->>Process: Step 1: Plan the work"
    /\ LinesOf(diagram.text)[7] = "    Process-->>User: Do the work Complete"

\* a timeline of four events has been built, a colon of an event text replaced
TimelineDiagramWitness ==
    /\ dstage = "done"
    /\ diagramInput.type = "timeline"
    /\ ~diagram.isNull
    /\ Len(LinesOf(diagram.text)) = 7
    /\ LinesOf(diagram.text)[4] = "    1969 : Moon landing; the first"

(***************************************************************************)
(* Properties of the flowchart of the results view (SpecParser)            *)
(***************************************************************************)
\* the node id of an item line "    A --> X[...]"
NodeIdOf(line) == ch(line, 11)

\* the item lines of a flowchart: those after its two header lines
ItemLines(text) == SubSeq(LinesOf(text), 3, Len(LinesOf(text)) - 1)

IdsAreLetters(lines) ==
    /\ Len(lines) <= 26
    /\ \A i \in 1..Len(lines) :
          /\ HasAt(lines[i], "    A --> ", 1)
          /\ NodeIdOf(lines[i]) \in UpperSet \ {"A"}
          /\ ch(lines[i], 12) = "["
          /\ \A j \in 1..Len(lines) : i # j => NodeIdOf(lines[i]) # NodeIdOf(lines[j])

\* C23: in every flowchart that the results view generates from a parsed report, the
\* item list handed to the builder has at most 26 items, and the node id of every item
\* is a single uppercase letter, different from the root id A and from the id of every
\* other item.
FlowchartIdsAreLetters ==
    (flow.rendered /\ ~flow.result.isNull) =>
        /\ Len(parsed.value.process_steps) <= 26
        /\ Len(ItemLines(flow.result.text)) = Len(parsed.value.process_steps)
        /\ IdsAreLetters(ItemLines(flow.result.text))

(***************************************************************************)
(* The headers and levels of formatReport's sections (SpecSections)        *)
(***************************************************************************)
\* the index at which the line holding index p of the report starts
LineStartOf(s, p) == 0 - FirstOr({0 - l : l \in {k \in 1..p : LineStart(s, k)}}, 0)

\* the heading of a chunk as it stands in the report: it starts with "##" when two
\* hashes stand at the start of its line
StartsWithTwoHashes(s, p) ==
    /\ ch(s, LineStartOf(s, p)) = "#"
    /\ ch(s, LineStartOf(s, p) + 1) = "#"
    /\ \A k \in LineStartOf(s, p)..p : ch(s, k) = "#"

ChunkOf(i) ==
    SubSeq(contentInput.v, sections[i].at,
           ChunkEnd(contentInput.v, ChunkStarts(contentInput.v), sections[i].at))

HeadingPlace(i) == sections[i].at + headerMatch(ChunkOf(i)).from - 1

HeaderAndLevelOf(i) ==
    IF headerMatch(ChunkOf(i)).found
    THEN /\ sections[i].header = trim(headerMatch(ChunkOf(i)).text)
         /\ sections[i].level =
                IF StartsWithTwoHashes(contentInput.v, HeadingPlace(i)) THEN 2 ELSE 1
    ELSE /\ sections[i].header = IF i = 1 THEN "Overview" ELSE "Section " \o ToString(i)
         /\ sections[i].level \in {1, 2}

\* C24: for every chunk produced by formatReport: if the chunk contains a heading line,
\* header is that heading's text with leading hashes and white space stripped, and level
\* is 2 when the heading starts with "##" and 1 when it starts with a single "#"; if it
\* contains none, header is "Overview" for the first chunk and "Section N" otherwise;
\* level is never a value other than 1 or 2.
HeadersAndLevelsFollowHeadings ==
    (sstage = "done" /\ ~Falsy(contentInput)) =>
        \A i \in 1..Len(sections) : HeaderAndLevelOf(i)


(***************************************************************************)
(* The years of the timeline are pairwise distinct (SpecParser)            *)
(***************************************************************************)
\* C25: for every report text, no two entries of timeline_data have the same year: the
\* years of the list that parseResearchData returns are pairwise distinct and, the list
\* being sorted, strictly increasing.
TimelineYearsStrictlyIncrease ==
    (pstage = "parsed" /\ ~parsed.raised) =>
        \A i, j \in 1..Len(parsed.value.timeline_data) :
            i < j => parsed.value.timeline_data[i].year < parsed.value.timeline_data[j].year

\* a text in which a year stands again after another year has been parsed: the
\* timeline names each of its years once
RepeatedYearWitness ==
    /\ pstage = "parsed"
    /\ reportInput.t = "string"
    /\ ~parsed.raised
    /\ \E i, j, k \in 1..Len(MatchAll("year", reportInput.v)) :
          /\ i < j /\ j < k
          /\ MatchAll("year", reportInput.v)[i] = MatchAll("year", reportInput.v)[k]
          /\ MatchAll("year", reportInput.v)[i] # MatchAll("year", reportInput.v)[j]
    /\ Len(parsed.value.timeline_data) >= 2
    /\ Len(parsed.value.timeline_data) < Len(MatchAll("year", reportInput.v))


(***************************************************************************)
(* A suggested question of the results view is clicked (Spec)              *)
(***************************************************************************)
\* the step started a request on the text q: the user message appended to the chat and
\* the topic submitted are q
StartsRequestOn(q) ==
    /\ Len(requests') = Len(requests) + 1
    /\ requests'[Len(requests')].text = q
    /\ requests'[Len(requests')].status = "inflight"
    /\ Len(messages') = Len(messages) + 2
    /\ messages'[Len(messages) + 1].sender = "user"
    /\ messages'[Len(messages) + 1].text = q

\* C26: when a suggested question of the results view is clicked,
\* handleFollowUpQuestion(question) starts a request whose submitted topic is that
\* question: the user message appended to the chat and the topic of the request both
\* equal the clicked question, whatever the input field held before the click.
FollowUpSubmitsClickedQuestion ==
    [][\A k \in 1..Len(currentResults.suggested_questions) :
          handleFollowUpQuestion(currentResults.suggested_questions[k])
              => StartsRequestOn(currentResults.suggested_questions[k])]_vars


(***************************************************************************)
(* The typing indicators of requests in flight together (Spec)             *)
(***************************************************************************)
InFlight(list, r) == r \in 1..Len(list) /\ list[r].status = "inflight"

ShowsTyping(list, r) == \E i \in 1..Len(list) : list[i].isTyping /\ list[i].req = r

\* the step is the continuation of request r, by a response or by a failure
SettlesNow(r) == InFlight(requests, r) /\ requests'[r].status = "settled"

\* C27: when several requests are in flight at once, the completion or failure of one
\* request removes only that request's typing indicator from the message list: the
\* typing indicator of every other request in flight stays until that request itself
\* settles.
OnlyOwnIndicatorRemoved ==
    [][\A r, q \in 1..MaxRequests :
          (r # q /\ SettlesNow(r) /\ InFlight(requests, q) /\ ShowsTyping(messages, q))
              => ShowsTyping(messages', q)]_vars

\* the same for two requests whose typing indicators have different ids
OnlyOwnIndicatorRemovedDistinctIds ==
    [][\A r, q \in 1..MaxRequests :
          (r # q /\ SettlesNow(r) /\ InFlight(requests, q) /\ ShowsTyping(messages, q)
             /\ requests[r].typingId # requests[q].typingId)
              => ShowsTyping(messages', q)]_vars


(***************************************************************************)
(* The tags of analyzeQuery and the dispatchers that serve them            *)
(* (SpecAnalyzer)                                                          *)
(***************************************************************************)
ElementsOf(seq) == {seq[i] : i \in 1..Len(seq)}

\* C28: every chart-type tag that analyzeQuery puts in chart_types has a case of its own
\* in generateChartData, and every diagram tag it puts in mermaid_diagrams is one of the
\* five types that generateMermaidDiagram dispatches: no tag of the analyzer falls
\* through to a default branch.
EveryTagHasItsBuilder ==
    (astage = "analysed" /\ ~analysis.raised) =>
        /\ ElementsOf(analysis.value.chart_types) \subseteq ChartCases
        /\ ElementsOf(analysis.value.mermaid_diagrams) \subseteq DiagramCases


(***************************************************************************)
(* The fully generic questions are never used (SpecFollowUps)              *)
(***************************************************************************)
GenericSet == {genericQuestions[i] : i \in 1..Len(genericQuestions)}

\* C29: in generateContextAwareFollowUps with a non-empty report, the candidate pool
\* holds at least 4 questions when the "fewer than 4" test is made, the 4 questions on
\* the main subject being its last: the fixed list of fully generic questions is never
\* appended and none of its 4 strings is ever returned.
GenericQuestionsNeverUsed ==
    (fstage = "done" /\ followInput.report # "") =>
        /\ Len(followUps.pool) >= 4
        /\ \E subject \in {followInput.topic} \cup ElementsOf(extractProperNouns(followInput.report)) :
              SubSeq(followUps.pool, Len(followUps.pool) - 3, Len(followUps.pool))
                  = SubjectQuestions(subject)
        /\ \A i \in 1..Len(followUps.pool) : followUps.pool[i] \notin GenericSet
        /\ \A i \in 1..Len(followUps.selected) : followUps.selected[i] \notin GenericSet

\* a report that brings no question of a domain and none of a content pattern: the
\* pool holds the 4 questions on the main subject and nothing else, and they are
\* returned
BarePoolWitness ==
    /\ fstage = "done"
    /\ followInput.report # ""
    /\ Len(followUps.pool) = 4
    /\ followUps.pool = SubjectQuestions(followInput.topic)
    /\ followUps.selected[1] = followUps.pool[4]


(***************************************************************************)
(* What a failed research request leaves behind (Spec)                     *)
(***************************************************************************)
\* the step is the continuation of research request r and ends with an error message
\* in the chat, whatever raised the error
EndsWithErrorNow(r) ==
    /\ ResearchInFlight(r)
    /\ requests'[r].status = "settled"
    /\ Len(requests'[r].replies) = 1
    /\ requests'[r].replies[1].isError

\* C30: whenever a research request ends with an error message in the chat, for whatever
\* reason the error arose inside handleSubmit (a response whose report field has an
\* unexpected shape included), the stored report, summary and currentResults are those
\* held before: a failed request changes only the message list, the error text and the
\* loading flag.
FailedRequestKeepsResults ==
    [][\A r \in 1..MaxRequests :
          EndsWithErrorNow(r) => /\ report' = report
                                 /\ summary' = summary
                                 /\ currentResults' = currentResults]_vars

====
